---- MODULE Spec2Model ----
(***************************************************************************)
(* Verification model of the social-archiver archive pipeline:             *)
(* ArchiveService (archivePost / archivePosts), VaultManager access        *)
(* checks, FolderManager, MediaStorageManager.storeMediaBinary,            *)
(* MarkdownConverter media references and FileSaver.                       *)
(*                                                                         *)
(* The storage root is a File System Access API directory tree.  It is     *)
(* modelled as a set of directory paths (sequences of segment names) and a *)
(* function from <<directory path, file name>> to file content.            *)
(* getFileHandle(name, {create: true}) makes an empty entry visible at     *)
(* once; createWritable()/write() fill a swap file that replaces the       *)
(* entry's content only when close() succeeds.                             *)
(***************************************************************************)
EXTENDS Integers, Sequences, FiniteSets, TLC

VARIABLES
  dirs,           \* directory paths that exist under the storage root
  files,          \* <<directory path, file name>> -> content
  perm,           \* readwrite permission state of the root handle
  currentHandle,  \* VaultManager.currentHandle is set (TRUE) or null (FALSE)
  clock,          \* Date.now(), in ticks
  faults,         \* I/O errors and withdrawals of the grant so far
  sv,             \* FileSaver call in progress
  ar,             \* ArchiveService.archivePost call in progress
  batch,          \* ArchiveService.archivePosts call in progress
  hist,           \* observations of the current archivePost call
  dl,             \* MediaDownloader.downloadMedia call in progress
  bt,             \* MediaDownloader.downloadBatch call in progress
  pg,             \* a platform parser's getAllPosts call and its document
  cv,             \* a MarkdownConverter.convert call
  en,             \* a BaseParser.parseEngagementNumber call
  sn,             \* a filename sanitizer call
  ti,             \* a MarkdownConverter.generateTitle call
  pd,             \* a PostDetector and the document it watches
  cs              \* the content script of a page

\* the archive pipeline (ArchiveService, VaultManager, FolderManager,
\* MediaStorageManager, FileSaver)
pipelineVars ==
  <<dirs, files, perm, currentHandle, clock, faults, sv, ar, batch, hist>>

\* what the archive pipeline never touches
outsidePipeline == <<dl, bt, pg, cv, en, sn, ti, pd, cs>>

\* what MediaDownloader never touches, the pipeline apart
outsideDownloader == <<pg, cv, en, sn, ti, pd, cs>>

\* what the downloader, the parsers' getAllPosts and convert never touch,
\* the pipeline apart
otherComponents == <<en, sn, ti, pd, cs>>

\* what one component never touches, the pipeline apart
outsideEngagement == <<dl, bt, pg, cv, sn, ti, pd, cs>>
outsideSanitize == <<dl, bt, pg, cv, en, ti, pd, cs>>
outsideTitle == <<dl, bt, pg, cv, en, sn, pd, cs>>
outsideDetector == <<dl, bt, pg, cv, en, sn, ti, cs>>
outsideContentScript == <<dl, bt, pg, cv, en, sn, ti, pd>>

vars == <<pipelineVars, outsidePipeline>>

(***************************************************************************)
(* Bounds                                                                  *)
(***************************************************************************)
MaxBatch == 2     \* longest list handed to archivePosts
MaxFaults == 1    \* I/O errors and withdrawals of the grant per behaviour
MaxSaves == 3     \* FileSaver calls per behaviour of the FileSaver driver
MaxTime == 6      \* downloadMedia is followed for this many base delays
MaxTimeout == 2   \* longest timeout option, in base delays
MaxUrls == 3      \* longest list handed to downloadBatch
MaxConcurrency == 2  \* largest concurrency option of downloadBatch
MaxFolderCalls == 2  \* ensureFolderStructure calls per behaviour
MaxElements == 2  \* elements of a document handed to a parser
MaxRefs == 3  \* media references handed to convert
MaxText == 4  \* longest engagement text, in characters
MaxName == 4  \* longest string handed to a sanitizer, in characters
MaxContent == 4  \* longest content text handed to generateTitle
MaxTitleLength == 2  \* largest maxTitleLength option
MaxNow == 1  \* Date.now() while a PostDetector is followed
MaxDeliveries == 2  \* scans go on while no post was delivered this often
MaxObservers == 3  \* MutationObservers a content script creates

(***************************************************************************)
(* Program constants                                                       *)
(***************************************************************************)
ROOT_FOLDER == "Social Archive"
ATTACHMENTS_FOLDER == "attachments"
RenameLimit == 1000
DEFAULT_RETRY_ATTEMPTS == 3
RETRY_DELAY_BASE == 1000
SanitizeLimit == 50
DefaultMaxTrackedPosts == 1000

PermissionStates == {"granted", "denied", "prompt"}

(***************************************************************************)
(* Records handed to the pipeline                                          *)
(***************************************************************************)
Image(u) == [type |-> "image", url |-> u]
Video(u) == [type |-> "video", url |-> u]

PostA ==
  [id |-> "a1", platform |-> "facebook", dateValid |-> TRUE, year |-> 2025,
   month |-> 10, day |-> 15, author |-> "Ann", title |-> "Hello",
   media |-> << >>]
PostB ==
  [id |-> "b2", platform |-> "instagram", dateValid |-> TRUE, year |-> 2024,
   month |-> 3, day |-> 7, author |-> "Bob", title |-> "Trip",
   media |-> <<Image("u1.png"), Video("u2.mp4")>>]
\* new Date(timestampAttr) of an unparsable attribute: an Invalid Date
PostC ==
  [id |-> "c3", platform |-> "linkedin", dateValid |-> FALSE, year |-> 0,
   month |-> 0, day |-> 0, author |-> "Cy", title |-> "News",
   media |-> <<Image("u3")>>]

Posts == {PostA, PostB, PostC}

\* collision policy: default (fail if exists), overwrite, auto-rename
ArchiveOptionsSet ==
  {o \in [overwrite : BOOLEAN, autoRename : BOOLEAN, downloadMedia : BOOLEAN] :
     ~(o.overwrite /\ o.autoRename)}

(***************************************************************************)
(* File names.  A name is kept in parsed form: the stem, the media index   *)
(* and timestamp of a generated attachment name (-1 for a document), the   *)
(* auto-rename counter n (0: no " (n)" suffix) and the extension.          *)
(***************************************************************************)
NoName == [stem |-> "", idx |-> -1, t |-> -1, n |-> -1, ext |-> ""]

GetPlatformDisplayName(platform) ==
  CASE platform = "facebook" -> "Facebook"
    [] platform = "instagram" -> "Instagram"
    [] platform = "linkedin" -> "LinkedIn"
    [] OTHER -> "Unknown"

\* (n).toString().padStart(2, '0')
PadStart2(n) == IF n < 10 THEN "0" \o ToString(n) ELSE ToString(n)

\* date.getFullYear().toString(); an Invalid Date yields NaN
YearString(post) == IF post.dateValid THEN ToString(post.year) ELSE "NaN"

\* (date.getMonth() + 1).toString().padStart(2, '0')
MonthString_Unpadded(post) ==
  IF post.dateValid THEN ToString(post.month) ELSE "NaN"

MonthString(post) == IF post.dateValid THEN PadStart2(post.month) ELSE "NaN"

\* FolderManager.ensureFolderStructure: pathSegments
PathSegments(post) ==
  <<ROOT_FOLDER, GetPlatformDisplayName(post.platform), YearString(post),
    MonthString(post)>>

\* MarkdownConverter.generateFilename; format() throws on an Invalid Date,
\* which convert() reports as a failure before a name is needed
GenerateFilename(post) ==
  [stem |-> ToString(post.year) \o "-" \o PadStart2(post.month) \o "-"
              \o PadStart2(post.day) \o " - " \o post.author \o " - "
              \o post.title,
   idx |-> -1, t |-> -1, n |-> 0, ext |-> ".md"]

\* MediaDownloader.detectFormat, on the URL (the test URLs carry their type)
DetectFormat(url) ==
  CASE url = "u1.png" -> "png"
    [] url = "u2.mp4" -> "mp4"
    [] OTHER -> ""

\* MediaStorageManager.generateMediaFilename without originalFilename
GenerateMediaFilename(postId, mediaIndex, format, now) ==
  [stem |-> postId, idx |-> mediaIndex, t |-> now, n |-> 0,
   ext |-> IF format # "" THEN "." \o format ELSE ".jpg"]

\* `${baseName} (${counter})${extension}`
Renamed(name, counter) == [name EXCEPT !.n = counter]

(***************************************************************************)
(* File content, one record shape for every kind of file.                  *)
(***************************************************************************)
EmptyContent ==
  [kind |-> "empty", post |-> "", refs |-> << >>, hasMedia |-> FALSE,
   media_count |-> 0, has_video |-> FALSE, mediaSection |-> FALSE]

BlobContent(url) == [EmptyContent EXCEPT !.kind = "blob", !.post = url]

OldContent == [EmptyContent EXCEPT !.kind = "old"]

(***************************************************************************)
(* MarkdownConverter                                                       *)
(***************************************************************************)
\* createWikiLink: the embed path is `attachments/${media.filename}`,
\* relative to the folder of the document
CreateWikiLink(media) ==
  [dir |-> <<ATTACHMENTS_FOLDER>>, name |-> media.filename, type |-> media.type]

\* formatMediaReferences: one wiki-link per media reference, in order
FormatMediaReferences_Reversed(mediaRefs) ==
  [k \in 1..Len(mediaRefs) |->
     CreateWikiLink(mediaRefs[Len(mediaRefs) + 1 - k])]

FormatMediaReferences(mediaRefs) ==
  [k \in 1..Len(mediaRefs) |-> CreateWikiLink(mediaRefs[k])]

\* generateFrontmatter: media_count and has_video are read from the record
FrontmatterHasVideo(post) ==
  \E k \in 1..Len(post.media) : post.media[k].type = "video"

\* convert: the assembled markdown; the media section is present only when
\* includeMediaLinks is set and there is at least one reference
ConvertMarkdown(post, mediaReferences, includeMediaLinks) ==
  LET section == includeMediaLinks /\ Len(mediaReferences) > 0 IN
  [kind |-> "doc", post |-> post.id,
   refs |-> IF section THEN FormatMediaReferences(mediaReferences) ELSE << >>,
   hasMedia |-> Len(post.media) > 0,
   media_count |-> Len(post.media),
   has_video |-> FrontmatterHasVideo(post),
   mediaSection |-> section]

\* convert: format() of date-fns throws on an Invalid Date and the catch
\* block turns that into { success: false }
ConvertSucceeds(post) == post.dateValid

(***************************************************************************)
(* File System Access API on the tree                                      *)
(***************************************************************************)
FileKey(dir, name) == <<dir, name>>

\* a lookup without create needs read access, which is lost with the grant
Readable == perm = "granted"

\* FileSaver.fileExists: any rejection of getFileHandle reads as "absent"
FileExists(dir, name) == Readable /\ FileKey(dir, name) \in DOMAIN files

\* outcomes of an operation that needs readwrite access
WriteOutcomes ==
  IF perm # "granted" THEN {"denied"}
  ELSE IF faults < MaxFaults THEN {"ok", "error"} ELSE {"ok"}

Faulted(o) == IF o = "error" THEN faults + 1 ELSE faults

\* getFileHandle(name, { create: true }): an absent file appears, empty
WithFileHandle(dir, name) ==
  IF FileKey(dir, name) \in DOMAIN files THEN files
  ELSE (FileKey(dir, name) :> EmptyContent) @@ files

\* writable.close(): the swap file replaces the content of the entry
WithClosed(dir, name, content) == (FileKey(dir, name) :> content) @@ files

(***************************************************************************)
(* Observations of the call in progress (history, read by the properties)  *)
(***************************************************************************)
HistOf(d, f) ==
  [preDirs |-> d, preFiles |-> f, \* storage when the call began
   access |-> "none",          \* outcome of the handle and access checks
   checked |-> FALSE,          \* a permission check since the last write
   attempts |-> 0,             \* write operations begun on the root
   uncheckedWrite |-> FALSE,   \* some write had no check of its own
   deniedWrite |-> FALSE,      \* some write was attempted without the grant
   fetches |-> 0,              \* media downloads started
   fetched |-> {},             \* media indices whose download succeeded
   fetchFailed |-> {},         \* media indices whose download failed
   storeFailed |-> {},         \* media indices whose store failed
   stored |-> {},              \* attachment names whose close() succeeded
   folder |-> "none",          \* ensureFolderStructure: none, ok, failed
   render |-> "none",          \* convert: none, ok, failed
   save |-> "none",            \* the document save: none, ok, failed
   docExisted |-> FALSE,       \* the target existed when saveFile began
   docBefore |-> EmptyContent] \* and held this content

FreshHist == HistOf(dirs, files)

\* a write operation on the root begins
NoteWrite(h) ==
  [h EXCEPT !.attempts = @ + 1,
            !.uncheckedWrite = @ \/ ~h.checked,
            !.deniedWrite = @ \/ perm # "granted",
            !.checked = FALSE]

(***************************************************************************)
(* FileSaver                                                               *)
(***************************************************************************)
SaveFailure(msg) == [success |-> FALSE, path |-> NoName, error |-> msg]

\* saveFile: { success: true, path: filename }
SaveSuccess(filename) == [success |-> TRUE, path |-> filename, error |-> ""]

IdleSaver ==
  [pc |-> "idle", caller |-> "", dir |-> << >>, filename |-> NoName,
   target |-> NoName, content |-> EmptyContent, overwrite |-> FALSE,
   result |-> SaveFailure("")]

\* a call of saveFile (auto = FALSE) or saveFileWithAutoRename (auto = TRUE)
SaverCall(caller, dir, filename, content, overwrite, auto) ==
  [pc |-> IF auto THEN "auto_exists" ELSE "exists", caller |-> caller,
   dir |-> dir, filename |-> filename, target |-> filename,
   content |-> content, overwrite |-> IF auto THEN FALSE ELSE overwrite,
   result |-> SaveFailure("")]

SaverFails(msg) == [sv EXCEPT !.pc = "done", !.result = SaveFailure(msg)]

\* saveFile: if (exists && !overwrite) return failure
RejectsExisting_Never(exists, overwrite) == FALSE

RejectsExisting(exists, overwrite) == exists /\ ~overwrite

\* generateUniqueFilename: the state of the while loop.  status is "loop"
\* while the condition is still to be tested, "found" once it was false and
\* "thrown" after 'Could not generate unique filename'.
UniqueLoop(newFilename, counter) ==
  [newFilename |-> newFilename, counter |-> counter, status |-> "loop"]

\* one test of the loop condition and, when it holds, one pass of the body
UniqueStep(dir, original, s) ==
  IF s.status # "loop" THEN s
  ELSE IF ~FileExists(dir, s.newFilename) THEN [s EXCEPT !.status = "found"]
  ELSE IF s.counter + 1 > RenameLimit
       THEN [s EXCEPT !.newFilename = Renamed(original, s.counter),
                      !.counter = s.counter + 1, !.status = "thrown"]
       ELSE UniqueLoop(Renamed(original, s.counter), s.counter + 1)

\* k steps of the loop from s (halved, to keep the evaluation shallow)
RECURSIVE UniqueRun(_, _, _, _)
UniqueRun(dir, original, s, k) ==
  IF k = 0 THEN s
  ELSE IF k = 1 THEN UniqueStep(dir, original, s)
  ELSE LET half == UniqueRun(dir, original, s, k \div 2) IN
       IF half.status # "loop" THEN half
       ELSE UniqueRun(dir, original, half, k - (k \div 2))

\* the loop run to its end: the name returned, or NoName when it throws
UniqueResult(dir, original, s) ==
  LET end == UniqueRun(dir, original, s, RenameLimit + 1) IN
  IF end.status = "found" THEN end.newFilename ELSE NoName

GenerateUniqueFilename_FromTwo(dir, originalFilename) ==
  UniqueResult(dir, originalFilename, UniqueLoop(originalFilename, 2))

\* let counter = 1; let newFilename = originalFilename; while (...) {...}
GenerateUniqueFilename(dir, originalFilename) ==
  UniqueResult(dir, originalFilename, UniqueLoop(originalFilename, 1))

\* saveFileWithAutoRename: fileExists(filename), then saveFile or the search
SvAutoExists ==
  /\ sv.pc = "auto_exists"
  /\ sv' = [sv EXCEPT !.pc = IF FileExists(sv.dir, sv.filename)
                              THEN "auto_unique" ELSE "exists"]
  /\ UNCHANGED outsidePipeline
  /\ UNCHANGED <<dirs, files, perm, currentHandle, clock, faults, ar, batch, hist>>

SvAutoUnique ==
  /\ sv.pc = "auto_unique"
  /\ LET unique == GenerateUniqueFilename(sv.dir, sv.filename) IN
       sv' = IF unique = NoName
             THEN SaverFails("Could not generate unique filename")
             ELSE [sv EXCEPT !.pc = "exists", !.target = unique]
  /\ UNCHANGED outsidePipeline
  /\ UNCHANGED <<dirs, files, perm, currentHandle, clock, faults, ar, batch, hist>>

\* saveFile: the existence check
SvExists ==
  /\ sv.pc = "exists"
  /\ LET key == FileKey(sv.dir, sv.target) IN
       hist' = [hist EXCEPT !.docExisted = key \in DOMAIN files,
                            !.docBefore = IF key \in DOMAIN files
                                          THEN files[key] ELSE EmptyContent]
  /\ sv' = IF RejectsExisting(FileExists(sv.dir, sv.target), sv.overwrite)
           THEN SaverFails("File already exists")
           ELSE [sv EXCEPT !.pc = "getHandle"]
  /\ UNCHANGED outsidePipeline
  /\ UNCHANGED <<dirs, files, perm, currentHandle, clock, faults, ar, batch>>

\* saveFile: directoryHandle.getFileHandle(filename, { create: true })
SvGetHandle ==
  /\ sv.pc = "getHandle"
  /\ \E o \in WriteOutcomes :
       /\ faults' = Faulted(o)
       /\ IF o = "ok"
          THEN /\ files' = WithFileHandle(sv.dir, sv.target)
               /\ sv' = [sv EXCEPT !.pc = "createWritable"]
          ELSE /\ files' = files
               /\ sv' = SaverFails(o)
  /\ hist' = NoteWrite(hist)
  /\ UNCHANGED outsidePipeline
  /\ UNCHANGED <<dirs, perm, currentHandle, clock, ar, batch>>

\* saveFile: fileHandle.createWritable()
SvCreateWritable ==
  /\ sv.pc = "createWritable"
  /\ \E o \in WriteOutcomes :
       /\ faults' = Faulted(o)
       /\ sv' = IF o = "ok" THEN [sv EXCEPT !.pc = "write"] ELSE SaverFails(o)
  /\ UNCHANGED outsidePipeline
  /\ UNCHANGED <<dirs, files, perm, currentHandle, clock, ar, batch, hist>>

\* saveFile: writable.write(content), into the swap file
SvWrite ==
  /\ sv.pc = "write"
  /\ \E o \in WriteOutcomes :
       /\ faults' = Faulted(o)
       /\ sv' = IF o = "ok" THEN [sv EXCEPT !.pc = "close"] ELSE SaverFails(o)
  /\ UNCHANGED outsidePipeline
  /\ UNCHANGED <<dirs, files, perm, currentHandle, clock, ar, batch, hist>>

\* saveFile: writable.close(), then { success: true, path: filename }
SvClose ==
  /\ sv.pc = "close"
  /\ \E o \in WriteOutcomes :
       /\ faults' = Faulted(o)
       /\ IF o = "ok"
          THEN /\ files' = WithClosed(sv.dir, sv.target, sv.content)
               /\ sv' = [sv EXCEPT !.pc = "done",
                                   !.result = SaveSuccess(sv.target)]
          ELSE /\ files' = files
               /\ sv' = SaverFails(o)
  /\ UNCHANGED outsidePipeline
  /\ UNCHANGED <<dirs, perm, currentHandle, clock, ar, batch, hist>>

SaverStep ==
  \/ SvAutoExists \/ SvAutoUnique \/ SvExists
  \/ SvGetHandle \/ SvCreateWritable \/ SvWrite \/ SvClose

(***************************************************************************)
(* ArchiveService.archivePost                                              *)
(***************************************************************************)
NoPath == [dir |-> << >>, name |-> NoName]

ArchiveFailure(msg) ==
  [success |-> FALSE, filename |-> NoName, path |-> NoPath, error |-> msg]

\* { success: true, filename: saveResult.path,
\*   path: `${folderResult.path}/${saveResult.path}` }
ArchiveSuccess_NoFolder(folderPath, savedName) ==
  [success |-> TRUE, filename |-> savedName,
   path |-> [dir |-> << >>, name |-> savedName], error |-> ""]

ArchiveSuccess(folderPath, savedName) ==
  [success |-> TRUE, filename |-> savedName,
   path |-> [dir |-> folderPath, name |-> savedName], error |-> ""]

IdleArchive ==
  [pc |-> "idle", post |-> PostA,
   opts |-> [overwrite |-> FALSE, autoRename |-> FALSE, downloadMedia |-> FALSE],
   cur |-> << >>, folder |-> << >>, i |-> 1, mname |-> NoName, refs |-> << >>,
   filename |-> NoName, markdown |-> EmptyContent, result |-> ArchiveFailure("")]

ArchiveCall(post, opts) ==
  [IdleArchive EXCEPT !.pc = "init", !.post = post, !.opts = opts]

ArchiveReturns(result) == [ar EXCEPT !.pc = "done", !.result = result]

\* the handle that archivePost passes to storeMediaBinary is the vault
\* handle (the root, path << >>), not folderResult.handle
MediaFolderHandle(vaultPath, folderPath) == vaultPath

\* verifyAndRequestAccess() decides whether archivePost goes on
HasAccess_Always(granted) == TRUE

HasAccess(granted) == granted

\* the media loop: after a download, store it or go to the next item
AfterDownload_Abort(success) == IF success THEN "st_dir" ELSE "abort"

AfterDownload(success) == IF success THEN "st_dir" ELSE "next"

\* mediaReferences.push(...) only if storageResult.success
CollectReference_Always(mediaReferences, storeOk, ref) ==
  Append(mediaReferences, ref)

CollectReference(mediaReferences, storeOk, ref) ==
  IF storeOk THEN Append(mediaReferences, ref) ELSE mediaReferences

\* where the call goes once media item i is finished (or skipped)
MediaPc(post, opts, i) ==
  IF opts.downloadMedia /\ i <= Len(post.media) THEN "download" ELSE "convert"

\* initialize(), getCurrentHandle(): no handle, no archive
ArInit ==
  /\ ar.pc = "init"
  /\ IF currentHandle
     THEN /\ ar' = [ar EXCEPT !.pc = "verify"]
          /\ hist' = hist
     ELSE /\ ar' = ArchiveReturns(ArchiveFailure("No vault selected"))
          /\ hist' = [hist EXCEPT !.access = "nohandle"]
  /\ UNCHANGED outsidePipeline
  /\ UNCHANGED <<dirs, files, perm, currentHandle, clock, faults, sv, batch>>

\* VaultManager.verifyAndRequestAccess: checkPermission, and requestPermission
\* (queryPermission, then the prompt) when it is not granted; the prompt is
\* answered by the user or rejects (no user activation)
ArVerify ==
  /\ ar.pc = "verify"
  /\ \E answer \in IF perm = "granted" THEN {"granted"}
                   ELSE {"granted", "denied", "throws"} :
       /\ perm' = IF answer = "throws" THEN perm ELSE answer
       /\ ar' = IF HasAccess(answer = "granted")
                THEN [ar EXCEPT !.pc = "folders"]
                ELSE ArchiveReturns(ArchiveFailure("Vault access denied"))
       /\ hist' = [hist EXCEPT !.checked = TRUE,
                     !.access = IF answer = "granted" THEN "granted"
                                ELSE "refused"]
  /\ UNCHANGED outsidePipeline
  /\ UNCHANGED <<dirs, files, currentHandle, clock, faults, sv, batch>>

\* FolderManager.ensureFolderStructure: one getOrCreateFolder of the loop
ArFolder ==
  /\ ar.pc = "folders"
  /\ LET segment == PathSegments(ar.post)[Len(ar.cur) + 1]
         created == Append(ar.cur, segment)
     IN \E o \in WriteOutcomes :
          /\ faults' = Faulted(o)
          /\ IF o = "ok"
             THEN /\ dirs' = dirs \cup {created}
                  /\ IF Len(created) = Len(PathSegments(ar.post))
                     THEN /\ ar' = [ar EXCEPT !.cur = created,
                                      !.folder = created,
                                      !.pc = MediaPc(ar.post, ar.opts, 1)]
                          /\ hist' = [NoteWrite(hist) EXCEPT !.folder = "ok"]
                     ELSE /\ ar' = [ar EXCEPT !.cur = created]
                          /\ hist' = NoteWrite(hist)
             ELSE /\ dirs' = dirs
                  /\ ar' = ArchiveReturns(
                             ArchiveFailure("Failed to create folder structure"))
                  /\ hist' = [NoteWrite(hist) EXCEPT !.folder = "failed"]
  /\ UNCHANGED outsidePipeline
  /\ UNCHANGED <<files, perm, currentHandle, clock, sv, batch>>

\* end of one pass of the media loop
NextMedia(a) ==
  [a EXCEPT !.i = a.i + 1, !.pc = MediaPc(a.post, a.opts, a.i + 1)]

\* mediaDownloader.downloadMedia({ url }): it settles with success or failure
ArDownload ==
  /\ ar.pc = "download"
  /\ \E success \in BOOLEAN :
       LET to == AfterDownload(success) IN
       /\ ar' = IF to = "st_dir" THEN [ar EXCEPT !.pc = "st_dir"]
                ELSE IF to = "next" THEN NextMedia(ar)
                ELSE ArchiveReturns(ArchiveFailure("Download failed"))
       /\ hist' = [hist EXCEPT
                     !.fetches = @ + 1,
                     !.fetched = IF success THEN @ \cup {ar.i} ELSE @,
                     !.fetchFailed = IF success THEN @ ELSE @ \cup {ar.i}]
  /\ UNCHANGED outsidePipeline
  /\ UNCHANGED <<dirs, files, perm, currentHandle, clock, faults, sv, batch>>

StoreFails ==
  /\ ar' = NextMedia([ar EXCEPT !.refs = CollectReference(ar.refs, FALSE,
                        [type |-> ar.post.media[ar.i].type,
                         filename |-> ar.mname,
                         originalUrl |-> ar.post.media[ar.i].url])])

\* storeMediaBinary: getAttachmentsFolder(folderHandle)
ArStoreDir ==
  /\ ar.pc = "st_dir"
  /\ LET parent == MediaFolderHandle(<< >>, ar.folder)
         name == GenerateMediaFilename(ar.post.id, ar.i - 1,
                   DetectFormat(ar.post.media[ar.i].url), clock)
     IN \E o \in WriteOutcomes :
          /\ faults' = Faulted(o)
          /\ IF o = "ok"
             THEN /\ dirs' = dirs \cup {Append(parent, ATTACHMENTS_FOLDER)}
                  /\ ar' = [ar EXCEPT !.pc = "st_file", !.mname = name]
                  /\ hist' = NoteWrite(hist)
             ELSE /\ dirs' = dirs
                  /\ StoreFails
                  /\ hist' = [NoteWrite(hist) EXCEPT
                                !.storeFailed = @ \cup {ar.i}]
  /\ UNCHANGED outsidePipeline
  /\ UNCHANGED <<files, perm, currentHandle, clock, sv, batch>>

AttachmentsPath == Append(MediaFolderHandle(<< >>, ar.folder), ATTACHMENTS_FOLDER)

\* storeMediaBinary: attachmentsHandle.getFileHandle(filename, { create: true })
ArStoreFile ==
  /\ ar.pc = "st_file"
  /\ \E o \in WriteOutcomes :
       /\ faults' = Faulted(o)
       /\ IF o = "ok"
          THEN /\ files' = WithFileHandle(AttachmentsPath, ar.mname)
               /\ ar' = [ar EXCEPT !.pc = "st_writable"]
               /\ hist' = hist
          ELSE /\ files' = files
               /\ StoreFails
               /\ hist' = [hist EXCEPT !.storeFailed = @ \cup {ar.i}]
  /\ UNCHANGED outsidePipeline
  /\ UNCHANGED <<dirs, perm, currentHandle, clock, sv, batch>>

\* storeMediaBinary: createWritable()
ArStoreWritable ==
  /\ ar.pc = "st_writable"
  /\ \E o \in WriteOutcomes :
       /\ faults' = Faulted(o)
       /\ IF o = "ok"
          THEN /\ ar' = [ar EXCEPT !.pc = "st_write"]
               /\ hist' = hist
          ELSE /\ StoreFails
               /\ hist' = [hist EXCEPT !.storeFailed = @ \cup {ar.i}]
  /\ UNCHANGED outsidePipeline
  /\ UNCHANGED <<dirs, files, perm, currentHandle, clock, sv, batch>>

\* storeMediaBinary: writable.write(blob), into the swap file
ArStoreWrite ==
  /\ ar.pc = "st_write"
  /\ \E o \in WriteOutcomes :
       /\ faults' = Faulted(o)
       /\ IF o = "ok"
          THEN /\ ar' = [ar EXCEPT !.pc = "st_close"]
               /\ hist' = hist
          ELSE /\ StoreFails
               /\ hist' = [hist EXCEPT !.storeFailed = @ \cup {ar.i}]
  /\ UNCHANGED outsidePipeline
  /\ UNCHANGED <<dirs, files, perm, currentHandle, clock, sv, batch>>

\* storeMediaBinary: writable.close(); archivePost then pushes the reference
ArStoreClose ==
  /\ ar.pc = "st_close"
  /\ \E o \in WriteOutcomes :
       /\ faults' = Faulted(o)
       /\ IF o = "ok"
          THEN /\ files' = WithClosed(AttachmentsPath, ar.mname,
                             BlobContent(ar.post.media[ar.i].url))
               /\ ar' = NextMedia(
                          [ar EXCEPT !.refs = CollectReference(ar.refs, TRUE,
                             [type |-> ar.post.media[ar.i].type,
                              filename |-> ar.mname,
                              originalUrl |-> ar.post.media[ar.i].url])])
               /\ hist' = [hist EXCEPT !.stored = @ \cup {ar.mname}]
          ELSE /\ files' = files
               /\ StoreFails
               /\ hist' = [hist EXCEPT !.storeFailed = @ \cup {ar.i}]
  /\ UNCHANGED outsidePipeline
  /\ UNCHANGED <<dirs, perm, currentHandle, clock, sv, batch>>

\* markdownConverter.convert(post, mediaReferences, ...), then the call of
\* saveFileWithAutoRename or saveFile on folderResult.handle
ArConvert ==
  /\ ar.pc = "convert"
  /\ IF ConvertSucceeds(ar.post)
     THEN LET markdown == ConvertMarkdown(ar.post, ar.refs, ar.opts.downloadMedia)
              filename == GenerateFilename(ar.post)
          IN /\ ar' = [ar EXCEPT !.pc = "saving", !.markdown = markdown,
                                 !.filename = filename]
             /\ sv' = SaverCall("archive", ar.folder, filename, markdown,
                                ar.opts.overwrite, ar.opts.autoRename)
             /\ hist' = [hist EXCEPT !.render = "ok"]
     ELSE /\ ar' = ArchiveReturns(
                     ArchiveFailure("Failed to convert post to markdown"))
          /\ sv' = sv
          /\ hist' = [hist EXCEPT !.render = "failed"]
  /\ UNCHANGED outsidePipeline
  /\ UNCHANGED <<dirs, files, perm, currentHandle, clock, faults, batch>>

\* the result of the save decides the result of archivePost
ArSaved ==
  /\ ar.pc = "saving"
  /\ sv.pc = "done"
  /\ sv.caller = "archive"
  /\ IF sv.result.success
     THEN /\ ar' = ArchiveReturns(ArchiveSuccess(ar.folder, sv.result.path))
          /\ hist' = [hist EXCEPT !.save = "ok"]
     ELSE /\ ar' = ArchiveReturns(ArchiveFailure("Failed to save file"))
          /\ hist' = [hist EXCEPT !.save = "failed"]
  /\ sv' = IdleSaver
  /\ UNCHANGED outsidePipeline
  /\ UNCHANGED <<dirs, files, perm, currentHandle, clock, faults, batch>>

ArchiveStep ==
  \/ ArInit \/ ArVerify \/ ArFolder \/ ArDownload
  \/ ArStoreDir \/ ArStoreFile \/ ArStoreWritable \/ ArStoreWrite \/ ArStoreClose
  \/ ArConvert \/ ArSaved

(***************************************************************************)
(* ArchiveService.archivePosts                                             *)
(***************************************************************************)
BatchInputs == UNION {[1..n -> Posts] : n \in 0..MaxBatch}

IdleBatch ==
  [pc |-> "idle", posts |-> << >>, opts |-> IdleArchive.opts, k |-> 0,
   results |-> << >>, log |-> << >>]

\* results.push(result)
CollectResult_SkipFailures(results, result) ==
  IF result.success THEN Append(results, result) ELSE results

CollectResult(results, result) == Append(results, result)

\* archivePosts(posts, options): the loop starts with the first record
StartBatch ==
  /\ batch.pc = "idle"
  /\ \E posts \in BatchInputs, opts \in ArchiveOptionsSet :
       /\ batch' = [IdleBatch EXCEPT
                      !.pc = IF Len(posts) = 0 THEN "returned" ELSE "running",
                      !.posts = posts, !.opts = opts, !.k = 1]
       /\ ar' = IF Len(posts) = 0 THEN ar ELSE ArchiveCall(posts[1], opts)
  /\ hist' = FreshHist
  /\ UNCHANGED outsidePipeline
  /\ UNCHANGED <<dirs, files, perm, currentHandle, clock, faults, sv>>

\* archivePost has returned: push its result, pause 100 ms, go on with the
\* next record or return the results
BatchNext ==
  /\ batch.pc = "running"
  /\ ar.pc = "done"
  /\ clock' = clock + 1
  /\ LET results == CollectResult(batch.results, ar.result)
         log == Append(batch.log, [post |-> ar.post.id, result |-> ar.result])
     IN IF batch.k < Len(batch.posts)
        THEN /\ batch' = [batch EXCEPT !.k = @ + 1, !.results = results,
                                       !.log = log]
             /\ ar' = ArchiveCall(batch.posts[batch.k + 1], batch.opts)
             /\ hist' = FreshHist
        ELSE /\ batch' = [batch EXCEPT !.pc = "returned", !.results = results,
                                       !.log = log]
             /\ ar' = ar
             /\ hist' = hist
  /\ UNCHANGED outsidePipeline
  /\ UNCHANGED <<dirs, files, perm, currentHandle, faults, sv>>

(***************************************************************************)
(* The user or the browser withdraws the grant while a call is running     *)
(***************************************************************************)
CallRunning ==
  \/ batch.pc = "running" /\ ar.pc # "done"
  \/ batch.pc = "saves" /\ sv.pc \notin {"idle", "done"}
  \/ batch.pc = "folders" /\ ar.pc = "folders"

Revoke ==
  /\ CallRunning
  /\ perm = "granted"
  /\ faults < MaxFaults
  /\ perm' = "prompt"
  /\ faults' = faults + 1
  /\ UNCHANGED outsidePipeline
  /\ UNCHANGED <<dirs, files, currentHandle, clock, sv, ar, batch, hist>>

(***************************************************************************)
(* MediaDownloader.downloadMedia.  Time is in milliseconds and is observed *)
(* at multiples of the base delay.  A timer that is due fires before time  *)
(* moves on.                                                               *)
(***************************************************************************)
\* options.retryAttempts (default 3) and options.timeout
RetryAttemptsSet == 0..DEFAULT_RETRY_ATTEMPTS

TimeoutSet == {k * RETRY_DELAY_BASE : k \in 1..MaxTimeout}

\* MediaDownloadResult; corsBlocked is absent (FALSE) unless set
DownloadSuccess == [success |-> TRUE, error |-> "", corsBlocked |-> FALSE]

DownloadFailure(msg, cors) ==
  [success |-> FALSE, error |-> msg, corsBlocked |-> cors]

\* what fetch(), response.blob() or reader.read() may throw
FailedToFetch == [name |-> "TypeError", message |-> "Failed to fetch"]
NetworkError == [name |-> "TypeError", message |-> "network error"]
AbortError == [name |-> "AbortError", message |-> "The operation was aborted"]

\* String.prototype.includes on the messages that occur
Includes(message, part) ==
  \/ part = "Failed to fetch" /\ message = "Failed to fetch"
  \/ part = "CORS" /\ message = "CORS blocked or network error"

\* fetchWithProgress: the catch block
ClassifyFetchError(error) ==
  IF error.name = "TypeError" /\ Includes(error.message, "Failed to fetch")
  THEN DownloadFailure("CORS blocked or network error", TRUE)
  ELSE IF error.name = "AbortError"
  THEN DownloadFailure("Download timeout", FALSE)
  ELSE DownloadFailure(error.message, FALSE)

\* RETRY_DELAY_BASE * Math.pow(2, attempt - 1)
RetryDelay_Constant(attempt) == RETRY_DELAY_BASE

RetryDelay(attempt) == RETRY_DELAY_BASE * 2 ^ (attempt - 1)

\* if (result.corsBlocked) downloadViaBackground(url)
TriggersFallback_AnyFailure(result) == TRUE

TriggersFallback(result) == result.corsBlocked

\* one entry of the log of direct fetch attempts
AttemptStarted(now) ==
  [start |-> now,        \* fetch() was called
   settled |-> -1,       \* fetchWithProgress settled
   kind |-> "pending",   \* ok, http, cors, timeout, error
   fallbacks |-> 0,      \* downloadViaBackground calls of the attempt
   fallbackAt |-> -1,    \* when the fallback was requested
   outcome |-> "pending", \* of the attempt: success or failure
   end |-> -1]           \* the attempt, its fallback included, was over

IdleDownload ==
  [pc |-> "idle", retryAttempts |-> 0, timeout |-> 0, attempt |-> 0,
   lastError |-> "", now |-> 0, called |-> 0, started |-> 0, deadline |-> -1,
   wake |-> -1, direct |-> DownloadSuccess, result |-> DownloadSuccess,
   log |-> << >>, delays |-> << >>]

\* the log with its last entry changed
Logged(d, entry) == [d.log EXCEPT ![Len(d.log)] = entry]

LastAttempt(d) == d.log[Len(d.log)]

\* fetchWithProgress begins: the abort timer is armed, fetch() is called
StartFetch(d) ==
  [d EXCEPT !.pc = "fetch", !.started = d.now, !.deadline = d.now + d.timeout,
            !.wake = -1, !.log = Append(d.log, AttemptStarted(d.now))]

\* downloadMedia({ url, retryAttempts, timeout })
DownloadCall ==
  /\ dl.pc = "idle"
  /\ \E r \in RetryAttemptsSet, t \in TimeoutSet :
       dl' = [dl EXCEPT !.pc = "loop", !.retryAttempts = r, !.timeout = t,
                        !.called = dl.now]
  /\ UNCHANGED <<pipelineVars, outsideDownloader, bt>>

\* the for loop: its test, the backoff delay of a retry, or the final
\* failure { success: false, error, corsBlocked }
DlLoop ==
  /\ dl.pc = "loop"
  /\ dl' =
       IF dl.attempt < dl.retryAttempts
       THEN IF dl.attempt > 0
            THEN [dl EXCEPT !.pc = "delay",
                            !.wake = dl.now + RetryDelay(dl.attempt),
                            !.delays = Append(@, RetryDelay(dl.attempt))]
            ELSE StartFetch(dl)
       ELSE [dl EXCEPT !.pc = "done",
               !.result =
                 DownloadFailure(
                   IF dl.lastError # "" THEN dl.lastError
                   ELSE "Download failed after all retry attempts",
                   Includes(dl.lastError, "CORS")
                     \/ Includes(dl.lastError, "cors"))]
  /\ UNCHANGED <<pipelineVars, outsideDownloader, bt>>

\* await this.delay(delay) is over
DlDelayed ==
  /\ dl.pc = "delay"
  /\ dl.now >= dl.wake
  /\ dl' = StartFetch(dl)
  /\ UNCHANGED <<pipelineVars, outsideDownloader, bt>>

\* downloadMedia after a failed fetchWithProgress: the fallback, or
\* lastError and the next pass of the loop
AfterDirectFailure(d, result, kind) ==
  LET entry == [LastAttempt(d) EXCEPT !.settled = d.now, !.kind = kind] IN
  IF TriggersFallback(result)
  THEN [d EXCEPT !.pc = "background", !.direct = result, !.deadline = -1,
         !.log = Logged(d, [entry EXCEPT !.fallbacks = @ + 1,
                                         !.fallbackAt = d.now])]
  ELSE [d EXCEPT !.pc = "loop", !.direct = result, !.deadline = -1,
         !.lastError = IF result.error # "" THEN result.error
                       ELSE "Download failed",
         !.attempt = @ + 1,
         !.log = Logged(d, [entry EXCEPT !.end = d.now,
                                         !.outcome = "failure"])]

\* fetch() resolves with the response head: clearTimeout(timeoutId), then
\* the status decides
DlResponse ==
  /\ dl.pc = "fetch"
  /\ dl.now <= dl.deadline
  /\ \E ok \in BOOLEAN :
       dl' = IF ok
             THEN [dl EXCEPT !.pc = "body", !.deadline = -1]
             ELSE AfterDirectFailure(
                    dl, DownloadFailure("HTTP 404: Not Found", FALSE), "http")
  /\ UNCHANGED <<pipelineVars, outsideDownloader, bt>>

\* fetch() rejects: blocked by CORS or the network is down
DlFetchRejects ==
  /\ dl.pc = "fetch"
  /\ dl.now <= dl.deadline
  /\ \E error \in {FailedToFetch, NetworkError} :
       LET result == ClassifyFetchError(error) IN
       dl' = AfterDirectFailure(
               dl, result, IF result.corsBlocked THEN "cors" ELSE "error")
  /\ UNCHANGED <<pipelineVars, outsideDownloader, bt>>

\* the timer fires while fetch() is pending: controller.abort()
DlAbort ==
  /\ dl.pc = "fetch"
  /\ dl.now >= dl.deadline
  /\ dl' = AfterDirectFailure(dl, ClassifyFetchError(AbortError), "timeout")
  /\ UNCHANGED <<pipelineVars, outsideDownloader, bt>>

\* the body is read to its end (response.blob() or the reader loop), or
\* the connection breaks while it is read
DlBody ==
  /\ dl.pc = "body"
  /\ \E complete \in BOOLEAN :
       dl' = IF complete
             THEN [dl EXCEPT !.pc = "done", !.result = DownloadSuccess,
                     !.log = Logged(dl, [LastAttempt(dl) EXCEPT
                               !.settled = dl.now, !.kind = "ok",
                               !.end = dl.now, !.outcome = "success"])]
             ELSE AfterDirectFailure(
                    dl, ClassifyFetchError(NetworkError), "error")
  /\ UNCHANGED <<pipelineVars, outsideDownloader, bt>>

\* downloadViaBackground(url) settles
DlBackground ==
  /\ dl.pc = "background"
  /\ \E ok \in BOOLEAN :
       dl' = IF ok
             THEN [dl EXCEPT !.pc = "done", !.result = DownloadSuccess,
                     !.log = Logged(dl, [LastAttempt(dl) EXCEPT
                               !.end = dl.now, !.outcome = "success"])]
             ELSE [dl EXCEPT !.pc = "loop",
                     !.lastError = IF dl.direct.error # ""
                                   THEN dl.direct.error ELSE "Download failed",
                     !.attempt = @ + 1,
                     !.log = Logged(dl, [LastAttempt(dl) EXCEPT
                               !.end = dl.now, !.outcome = "failure"])]
  /\ UNCHANGED <<pipelineVars, outsideDownloader, bt>>

\* a timer of the call is due
TimerDue ==
  \/ dl.pc = "delay" /\ dl.now >= dl.wake
  \/ dl.pc = "fetch" /\ dl.now >= dl.deadline

\* time passes while the call waits
Tick ==
  /\ dl.pc \in {"delay", "fetch", "body", "background"}
  /\ ~TimerDue
  /\ dl.now < MaxTime * RETRY_DELAY_BASE
  /\ dl' = [dl EXCEPT !.now = @ + RETRY_DELAY_BASE]
  /\ UNCHANGED <<pipelineVars, outsideDownloader, bt>>

DownloadStep ==
  \/ DlLoop \/ DlDelayed \/ DlResponse \/ DlFetchRejects \/ DlAbort
  \/ DlBody \/ DlBackground

(***************************************************************************)
(* MediaDownloader.downloadBatch.  A download of the batch is a            *)
(* downloadMedia({ url }) call: it is in flight from its start until it    *)
(* settles with a success or a failure (it never rejects).                 *)
(***************************************************************************)
Urls == {"a.jpg", "b.jpg"}

\* every list of at most MaxUrls URLs, repetitions included
UrlLists == UNION {[1..n -> Urls] : n \in 0..MaxUrls}

ConcurrencySet == 1..MaxConcurrency

NoResults == [u \in {} |-> DownloadSuccess]

IdleDownloadBatch ==
  [pc |-> "idle", urls |-> << >>, concurrency |-> 1, i |-> 0,
   inflight |-> {},      \* indices (from 1) of the downloads in flight
   settled |-> {},       \* indices of the downloads that have settled
   results |-> NoResults, completed |-> 0, successCount |-> 0,
   failureCount |-> 0,
   out |-> [success |-> FALSE, results |-> NoResults, successCount |-> 0,
            failureCount |-> 0]]

\* urls.slice(i, i + concurrency), as indices from 1
WaveOf(urls, i, concurrency) ==
  {k \in 1..Len(urls) : i < k /\ k <= i + concurrency}

\* await Promise.all(...): every download of the wave has settled
WaveSettled_Always(inflight) == TRUE

WaveSettled(inflight) == inflight = {}

\* results.set(url, result)
ResultsSet(results, url, result) ==
  [u \in DOMAIN results \cup {url} |->
     IF u = url THEN result ELSE results[u]]

\* downloadBatch({ urls, concurrency })
BatchCall ==
  /\ bt.pc = "idle"
  /\ \E urls \in UrlLists, concurrency \in ConcurrencySet :
       bt' = [IdleDownloadBatch EXCEPT !.pc = "loop", !.urls = urls,
                                       !.concurrency = concurrency]
  /\ UNCHANGED <<pipelineVars, outsideDownloader, dl>>

\* the for loop: its test, then the downloads of the next wave all start,
\* or the call returns
BtLoop ==
  /\ bt.pc = "loop"
  /\ bt' =
       IF bt.i < Len(bt.urls)
       THEN [bt EXCEPT !.pc = "wave",
               !.inflight = @ \cup WaveOf(bt.urls, bt.i, bt.concurrency)]
       ELSE [bt EXCEPT !.pc = "returned",
               !.out = [success |-> bt.failureCount = 0,
                        results |-> bt.results,
                        successCount |-> bt.successCount,
                        failureCount |-> bt.failureCount]]
  /\ UNCHANGED <<pipelineVars, outsideDownloader, dl>>

\* one download settles: results.set, the counters
BtSettle ==
  /\ bt.inflight # {}
  /\ \E k \in bt.inflight, result \in {DownloadSuccess,
                                        DownloadFailure("Download failed", FALSE)} :
       bt' = [bt EXCEPT
                !.inflight = @ \ {k},
                !.settled = @ \cup {k},
                !.results = ResultsSet(@, bt.urls[k], result),
                !.successCount = IF result.success THEN @ + 1 ELSE @,
                !.failureCount = IF result.success THEN @ ELSE @ + 1,
                !.completed = @ + 1]
  /\ UNCHANGED <<pipelineVars, outsideDownloader, dl>>

\* Promise.all resolves: i += concurrency
BtWaveDone ==
  /\ bt.pc = "wave"
  /\ WaveSettled(bt.inflight)
  /\ bt' = [bt EXCEPT !.pc = "loop", !.i = @ + bt.concurrency]
  /\ UNCHANGED <<pipelineVars, outsideDownloader, dl>>

BatchStep == BtLoop \/ BtSettle \/ BtWaveDone

(***************************************************************************)
(* Platform parsers (FacebookParser, LinkedInParser, InstagramParser on    *)
(* BaseParser).  A document is the sequence of its elements in document    *)
(* order.  An element records which post-container selectors of the        *)
(* platform it matches (by position in the selector list), its tag, the    *)
(* text and href of its author link, whether it has a header or media, and *)
(* which of the selectors queried inside it find something.                *)
(***************************************************************************)
Platforms == {"facebook", "linkedin", "instagram"}

\* selectors.postContainer: 4 selectors (Facebook), 3 (LinkedIn); Instagram
\* queries 'article' alone
PostContainerCount(platform) ==
  CASE platform = "facebook" -> 4
    [] platform = "linkedin" -> 3
    [] OTHER -> 1

\* selector lists that parsePost hands to queryOne after the author check
SponsoredSelectors(platform) ==
  CASE platform = "facebook" ->
         <<"span:contains(Sponsored)", "[data-testid=story-subtitle] span">>
    [] platform = "linkedin" ->
         <<".update-components-actor__supplementary-actor-info:contains(Promoted)">>
    [] OTHER -> << >>

LikesSelectors(platform) ==
  IF platform = "instagram"
  THEN <<"section button span", "a[href*=/liked_by/]", "span:contains(likes)">>
  ELSE << >>

CommentsSelectors(platform) ==
  IF platform = "instagram"
  THEN <<"a[href*=/comments/]", "span:contains(comments)">>
  ELSE << >>

\* :contains() is not a CSS selector: querySelector throws a SyntaxError
\* on it, unless the selector engine is one that accepts it
NonStandard(selector) ==
  selector \in {"span:contains(Sponsored)", "span:contains(likes)",
                "span:contains(comments)",
                ".update-components-actor__supplementary-actor-info:contains(Promoted)"}

Engines == {"standard", "lenient"}

Accepted(engine, selector) == engine = "lenient" \/ ~NonStandard(selector)

Element(id, tag, sel, name, href, frame, found) ==
  [id |-> id, tag |-> tag, sel |-> sel, name |-> name, href |-> href,
   frame |-> frame, found |-> found]

\* the elements documents are made of
Fixtures ==
  {Element("e1", "div", {2}, "Ann", "", TRUE, {}),
   Element("e2", "article", {1, 2}, "Bob", "/bob", TRUE,
           {"section button span", "a[href*=/comments/]"}),
   Element("e3", "article", {3}, "", "", TRUE,
           {"section button span", "a[href*=/comments/]"}),
   Element("e4", "article", {1}, "", "/dee/", TRUE, {"a[href*=/comments/]"}),
   Element("e5", "span", {}, "Eve", "/eve", FALSE, {}),
   Element("e6", "article", {3}, "Fay", "/fay", FALSE,
           {"a[href*=/liked_by/]", "a[href*=/comments/]"}),
   Element("e7", "article", {1}, "Gil", "/gil", TRUE,
           {"a[href*=/liked_by/]", "a[href*=/comments/]"})}

\* every document of at most MaxElements distinct elements
Documents ==
  UNION {{d \in [1..n -> Fixtures] :
            \A i, j \in 1..n : i # j => d[i] # d[j]} : n \in 0..MaxElements}

\* BaseParser.queryOne: the selectors are tried in order; "throws" when an
\* unacceptable selector is reached before one that finds something
QueryOne(engine, element, selectors) ==
  LET hits == {k \in 1..Len(selectors) :
                 \/ ~Accepted(engine, selectors[k])
                 \/ selectors[k] \in element.found}
  IN IF hits = {} THEN "null"
     ELSE LET first == CHOOSE k \in hits : \A j \in hits : k <= j
          IN IF Accepted(engine, selectors[first]) THEN "found" ELSE "throws"

\* document.querySelectorAll of the k-th post-container selector
QuerySelectorAll(platform, doc, k) ==
  IF platform = "instagram"
  THEN SelectSeq(doc, LAMBDA e : e.tag = "article")
  ELSE SelectSeq(doc, LAMBDA e : k \in e.sel)

\* isPostElement
IsPostElement(platform, element) ==
  IF platform = "instagram"
  THEN element.tag = "article" /\ element.frame
  ELSE \E k \in 1..PostContainerCount(platform) : k \in element.sel

\* extractAttr(authorLinkEl, 'href')?.replace('/', '') || ''
AuthorUsername(href) ==
  CASE href = "/bob" -> "bob"
    [] href = "/dee/" -> "dee/"
    [] href = "/eve" -> "eve"
    [] href = "/fay" -> "fay"
    [] href = "/gil" -> "gil"
    [] OTHER -> ""

\* parsePost: the author check that returns null
AuthorMissing_Never(platform, element) == FALSE

AuthorMissing(platform, element) ==
  IF platform = "instagram"
  THEN element.name = "" /\ AuthorUsername(element.href) = ""
  ELSE element.name = ""

\* parsePost: some queryOne after the author check throws; the catch block
\* returns null
ParseThrows(platform, engine, element) ==
  \/ QueryOne(engine, element, SponsoredSelectors(platform)) = "throws"
  \/ QueryOne(engine, element, LikesSelectors(platform)) = "throws"
  \/ QueryOne(engine, element, CommentsSelectors(platform)) = "throws"

\* null
NoPost == [id |-> "", name |-> ""]

\* parsePost
ParsePost(platform, engine, element) ==
  IF AuthorMissing(platform, element) THEN NoPost
  ELSE IF ParseThrows(platform, engine, element) THEN NoPost
  ELSE [id |-> element.id,
        name |-> IF platform = "instagram" /\ element.name = ""
                 THEN AuthorUsername(element.href) ELSE element.name]

\* the inner loop of getAllPosts over the elements one query returned
RECURSIVE ParseElements(_, _, _)
ParseElements(platform, engine, elements) ==
  IF elements = << >> THEN << >>
  ELSE LET element == Head(elements)
           parsed == ParsePost(platform, engine, element)
           rest == ParseElements(platform, engine, Tail(elements))
       IN IF IsPostElement(platform, element) /\ parsed # NoPost
          THEN <<parsed>> \o rest
          ELSE rest

\* the outer loop of getAllPosts, from the k-th selector on
RECURSIVE PostsFromSelector(_, _, _, _)
PostsFromSelector(platform, engine, doc, k) ==
  IF k > PostContainerCount(platform) THEN << >>
  ELSE ParseElements(platform, engine, QuerySelectorAll(platform, doc, k))
         \o PostsFromSelector(platform, engine, doc, k + 1)

\* getAllPosts
GetAllPosts(platform, engine, doc) == PostsFromSelector(platform, engine, doc, 1)

IdleParser ==
  [pc |-> "idle", platform |-> "facebook", engine |-> "standard",
   doc |-> << >>, posts |-> << >>]

\* parser.getAllPosts() on a document
ParseCall ==
  /\ pg.pc = "idle"
  /\ \E platform \in Platforms, engine \in Engines, doc \in Documents :
       pg' = [pc |-> "returned", platform |-> platform, engine |-> engine,
              doc |-> doc, posts |-> GetAllPosts(platform, engine, doc)]
  /\ UNCHANGED <<pipelineVars, dl, bt, cv, otherComponents>>

(***************************************************************************)
(* MarkdownConverter.convert called on its own                             *)
(***************************************************************************)
\* MediaReference values: stored assets of a record
MediaReferences ==
  {[type |-> "image", filename |-> GenerateMediaFilename("b2", 0, "png", 1)],
   [type |-> "video", filename |-> GenerateMediaFilename("b2", 1, "mp4", 2)],
   [type |-> "image", filename |-> GenerateMediaFilename("c3", 0, "", 1)]}

\* every list of at most MaxRefs media references
MediaReferenceLists == UNION {[1..n -> MediaReferences] : n \in 0..MaxRefs}

IdleConvert ==
  [pc |-> "idle", post |-> PostA, mediaReferences |-> << >>,
   includeMediaLinks |-> TRUE, success |-> FALSE, markdown |-> EmptyContent]

\* convert(postData, mediaReferences, { includeMediaLinks })
ConvertCall ==
  /\ cv.pc = "idle"
  /\ \E post \in Posts, mediaReferences \in MediaReferenceLists,
        includeMediaLinks \in BOOLEAN :
       cv' = [pc |-> "returned", post |-> post,
              mediaReferences |-> mediaReferences,
              includeMediaLinks |-> includeMediaLinks,
              success |-> ConvertSucceeds(post),
              markdown |-> IF ConvertSucceeds(post)
                           THEN ConvertMarkdown(post, mediaReferences,
                                                includeMediaLinks)
                           ELSE EmptyContent]
  /\ UNCHANGED <<pipelineVars, dl, bt, pg, otherComponents>>

(***************************************************************************)
(* Strings are sequences of one-character strings.                         *)
(***************************************************************************)
Digits == {"0", "1", "2", "3", "4", "5", "6", "7", "8", "9"}

DigitValue(c) ==
  CASE c = "0" -> 0 [] c = "1" -> 1 [] c = "2" -> 2 [] c = "3" -> 3
    [] c = "4" -> 4 [] c = "5" -> 5 [] c = "6" -> 6 [] c = "7" -> 7
    [] c = "8" -> 8 [] OTHER -> 9

\* white space as \s and String.prototype.trim see it
WhiteSpace == {" ", "\n", "\t"}

RECURSIVE TrimStart(_)
TrimStart(s) ==
  IF s # << >> /\ Head(s) \in WhiteSpace THEN TrimStart(Tail(s)) ELSE s

RECURSIVE TrimEnd(_)
TrimEnd(s) ==
  IF s # << >> /\ s[Len(s)] \in WhiteSpace
  THEN TrimEnd(SubSeq(s, 1, Len(s) - 1)) ELSE s

\* String.prototype.trim
Trim(s) == TrimEnd(TrimStart(s))

\* String.prototype.toLowerCase
LowerChar(c) ==
  CASE c = "K" -> "k" [] c = "M" -> "m" [] c = "A" -> "a" [] OTHER -> c

ToLowerCase(s) == [k \in 1..Len(s) |-> LowerChar(s[k])]

\* String.prototype.includes, of one character
IncludesChar(s, c) == \E k \in 1..Len(s) : s[k] = c

\* s.replace(c, ''): the first occurrence only
ReplaceFirst(s, c) ==
  IF ~IncludesChar(s, c) THEN s
  ELSE LET first == CHOOSE k \in 1..Len(s) :
                      s[k] = c /\ \A j \in 1..(k - 1) : s[j] # c
       IN SubSeq(s, 1, first - 1) \o SubSeq(s, first + 1, Len(s))

\* the longest prefix of decimal digits
RECURSIVE DigitPrefix(_)
DigitPrefix(s) ==
  IF s # << >> /\ Head(s) \in Digits
  THEN <<Head(s)>> \o DigitPrefix(Tail(s)) ELSE << >>

\* the number a string of decimal digits denotes (0 for none)
RECURSIVE DigitsValue(_)
DigitsValue(s) ==
  IF s = << >> THEN 0
  ELSE 10 * DigitsValue(SubSeq(s, 1, Len(s) - 1)) + DigitValue(s[Len(s)])

RECURSIVE Pow10(_)
Pow10(n) == IF n = 0 THEN 1 ELSE 10 * Pow10(n - 1)

\* a JavaScript number: NaN, or the fraction num / den (den a power of 10)
NaN == [nan |-> TRUE, num |-> 0, den |-> 1]

Number(num, den) == [nan |-> FALSE, num |-> num, den |-> den]

\* parseFloat: leading white space, a sign, digits, a fraction; NaN when no
\* digit is found there (the texts have no exponent and no "Infinity")
ParseFloat(s) ==
  LET t == TrimStart(s)
      negative == t # << >> /\ Head(t) = "-"
      u == IF t # << >> /\ Head(t) \in {"-", "+"} THEN Tail(t) ELSE t
      int == DigitPrefix(u)
      v == SubSeq(u, Len(int) + 1, Len(u))
      frac == IF v # << >> /\ Head(v) = "." THEN DigitPrefix(Tail(v))
              ELSE << >>
  IN IF Len(int) + Len(frac) = 0 THEN NaN
     ELSE Number((IF negative THEN -1 ELSE 1) * DigitsValue(int \o frac),
                 Pow10(Len(frac)))

\* parseInt, radix 10
ParseInt(s) ==
  LET t == TrimStart(s)
      negative == t # << >> /\ Head(t) = "-"
      u == IF t # << >> /\ Head(t) \in {"-", "+"} THEN Tail(t) ELSE t
      int == DigitPrefix(u)
  IN IF int = << >> THEN NaN
     ELSE Number((IF negative THEN -1 ELSE 1) * DigitsValue(int), 1)

\* Math.round(x * factor): the nearest integer, halves towards +Infinity
MathRoundTimes(x, factor) ==
  IF x.nan THEN NaN
  ELSE Number((2 * x.num * factor + x.den) \div (2 * x.den), 1)

\* x || 0
OrZero(x) == IF x.nan \/ x.num = 0 THEN Number(0, 1) ELSE x

\* cleaned.replace(/[^0-9.]/g, '')
KeepDigitsAndDots(s) == SelectSeq(s, LAMBDA c : c \in Digits \cup {"."})

(***************************************************************************)
(* BaseParser.parseEngagementNumber                                        *)
(***************************************************************************)
\* the branch for thousands is taken when the text has a k, anywhere
HasThousandsMark(cleaned) == IncludesChar(cleaned, "k")

ParseEngagementNumber(text) ==
  IF text = << >> THEN Number(0, 1)
  ELSE LET cleaned == ToLowerCase(Trim(text)) IN
       IF HasThousandsMark(cleaned)
       THEN MathRoundTimes(ParseFloat(ReplaceFirst(cleaned, "k")), 1000)
       ELSE IF IncludesChar(cleaned, "m")
       THEN MathRoundTimes(ParseFloat(ReplaceFirst(cleaned, "m")), 1000000)
       ELSE OrZero(ParseInt(KeepDigitsAndDots(cleaned)))

\* characters of the engagement texts
EngagementChars == {"1", "2", ".", ",", "K", "m", " ", "-"}

\* every text of at most MaxText characters
EngagementTexts == UNION {[1..n -> EngagementChars] : n \in 0..MaxText}

IdleEngagement == [pc |-> "idle", text |-> << >>, result |-> Number(0, 1)]

\* parseEngagementNumber(text)
EngagementCall ==
  /\ en.pc = "idle"
  /\ \E text \in EngagementTexts :
       en' = [pc |-> "returned", text |-> text,
              result |-> ParseEngagementNumber(text)]
  /\ UNCHANGED <<pipelineVars, outsideEngagement>>

(***************************************************************************)
(* Filename sanitizers: MarkdownConverter.sanitizeFilename and             *)
(* FileNameGenerator.sanitize                                              *)
(***************************************************************************)
\* [\x00-\x1F], of which the strings here have tab and line feed
ControlChars == {"\t", "\n"}

\* /[<>:"/\\|?*\x00-\x1F]/
INVALID_CHARS ==
  {"<", ">", ":", "\"", "/", "\\", "|", "?", "*"} \cup ControlChars

\* /[#%&{}~$'`!@+]/ (the strings here have no backquote)
PROBLEMATIC_CHARS ==
  {"#", "%", "&", "{", "}", "~", "$", "'", "!", "@", "+"}

\* str.replace(/[set]/g, '')
RemoveChars(s, set) == SelectSeq(s, LAMBDA c : c \notin set)

\* str.replace(/[set]/g, by)
ReplaceChars(s, set, by) ==
  [k \in 1..Len(s) |-> IF s[k] \in set THEN by ELSE s[k]]

\* str.replace(/[set]+/g, by): every maximal run becomes one `by`
RECURSIVE ReplaceRuns(_, _, _)
ReplaceRuns(s, set, by) ==
  IF s = << >> THEN << >>
  ELSE IF Head(s) \notin set
  THEN <<Head(s)>> \o ReplaceRuns(Tail(s), set, by)
  ELSE IF Len(s) > 1 /\ s[2] \in set
  THEN ReplaceRuns(Tail(s), set, by)
  ELSE <<by>> \o ReplaceRuns(Tail(s), set, by)

\* str.replace(/[set]+$/g, '')
RECURSIVE RemoveTrailing(_, _)
RemoveTrailing(s, set) ==
  IF s # << >> /\ s[Len(s)] \in set
  THEN RemoveTrailing(SubSeq(s, 1, Len(s) - 1), set) ELSE s

\* str.replace(/^[set]+/g, '')
RECURSIVE RemoveLeading(_, _)
RemoveLeading(s, set) ==
  IF s # << >> /\ Head(s) \in set THEN RemoveLeading(Tail(s), set) ELSE s

\* str.substring(0, n)
Substring0(s, n) == SubSeq(s, 1, IF Len(s) < n THEN Len(s) ELSE n)

\* MarkdownConverter.sanitizeFilename
SanitizeFilename(str) ==
  Trim(Substring0(RemoveTrailing(ReplaceRuns(RemoveChars(str, INVALID_CHARS),
                                             WhiteSpace, "-"),
                                 {"."}),
                  SanitizeLimit))

\* FileNameGenerator.sanitize
Sanitize(str) ==
  LET sanitized == ReplaceRuns(ReplaceChars(RemoveChars(str, INVALID_CHARS),
                                            PROBLEMATIC_CHARS, "-"),
                               WhiteSpace \cup {"-"}, " ")
  IN RemoveTrailing(RemoveLeading(Trim(sanitized), {"-"}), {"-"})

\* characters of the strings handed to the sanitizers
NameChars == {"a", ".", " ", "-", ":", "\t", "#"}

\* every string of at most MaxName characters
Names == UNION {[1..n -> NameChars] : n \in 0..MaxName}

IdleSanitize == [pc |-> "idle", by |-> "", str |-> << >>, out |-> << >>]

\* markdownConverter.sanitizeFilename(str)
SanitizeFilenameCall ==
  /\ sn.pc = "idle"
  /\ \E str \in Names :
       sn' = [pc |-> "returned", by |-> "MarkdownConverter", str |-> str,
              out |-> SanitizeFilename(str)]
  /\ UNCHANGED <<pipelineVars, outsideSanitize>>

\* fileNameGenerator.sanitize(str)
SanitizeCall ==
  /\ sn.pc = "idle"
  /\ \E str \in Names :
       sn' = [pc |-> "returned", by |-> "FileNameGenerator", str |-> str,
              out |-> Sanitize(str)]
  /\ UNCHANGED <<pipelineVars, outsideSanitize>>

(***************************************************************************)
(* MarkdownConverter.generateTitle                                         *)
(***************************************************************************)
\* 'Untitled Post'
UntitledPost ==
  <<"U", "n", "t", "i", "t", "l", "e", "d", " ", "P", "o", "s", "t">>

\* '...'
Ellipsis == <<".", ".", ".">>

\* cleaned.split('\n')[0]
SplitFirst(s) ==
  IF ~IncludesChar(s, "\n") THEN s
  ELSE LET first == CHOOSE k \in 1..Len(s) :
                      s[k] = "\n" /\ \A j \in 1..(k - 1) : s[j] # "\n"
       IN SubSeq(s, 1, first - 1)

\* generateTitle: every run of white space, line breaks included, becomes
\* one space before the first line is taken
GenerateTitle(content, maxLength) ==
  LET cleaned == ReplaceRuns(Trim(content), WhiteSpace, " ") IN
  IF Len(cleaned) = 0 THEN UntitledPost
  ELSE LET firstLine == SplitFirst(cleaned) IN
       IF Len(firstLine) > maxLength
       THEN Trim(Substring0(firstLine, maxLength)) \o Ellipsis
       ELSE firstLine

\* characters of the content texts
ContentChars == {"a", "b", " ", "\n"}

\* every content text of at most MaxContent characters
Contents == UNION {[1..n -> ContentChars] : n \in 0..MaxContent}

IdleTitle ==
  [pc |-> "idle", content |-> << >>, maxLength |-> 0, title |-> << >>]

\* generateTitle(postData.content.text, maxTitleLength)
TitleCall ==
  /\ ti.pc = "idle"
  /\ \E content \in Contents, maxLength \in 0..MaxTitleLength :
       ti' = [pc |-> "returned", content |-> content,
              maxLength |-> maxLength,
              title |-> GenerateTitle(content, maxLength)]
  /\ UNCHANGED <<pipelineVars, outsideTitle>>

(***************************************************************************)
(* PostDetector                                                            *)
(***************************************************************************)
\* the post elements a watched document is made of
DetectorElements == {e \in Fixtures : e.id \in {"e2", "e7"}}

DetectorElementIds == {e.id : e \in DetectorElements}

\* element.getAttribute('data-id') || getAttribute('id') || ...: e2 carries
\* a data-id, e7 carries none
DataId(element) == IF element.id = "e2" THEN "p2" ELSE ""

\* watched documents
DetectorDocuments == {d \in Documents : \A k \in 1..Len(d) : d[k] \in DetectorElements}

\* BaseParser.generatePostId; the platform prefix is the same for every id
\* of one parser
GeneratePostId(element, timestamp, position) ==
  IF DataId(element) # ""
  THEN [dataId |-> DataId(element), timestamp |-> -1, position |-> -1]
  ELSE [dataId |-> "", timestamp |-> timestamp, position |-> position]

\* Array.from(document.querySelectorAll('*')).indexOf(element)
PositionOf(doc, elementId) == CHOOSE k \in 1..Len(doc) : doc[k].id = elementId

\* parser.getAllPosts() as the detector sees it: each record with its
\* generated id
CurrentPosts(d) ==
  LET posts == GetAllPosts(d.platform, d.engine, d.doc) IN
  [k \in 1..Len(posts) |->
     [element |-> posts[k].id,
      id |-> GeneratePostId(
               d.doc[PositionOf(d.doc, posts[k].id)], d.now,
               PositionOf(d.doc, posts[k].id))]]

\* trackedPosts.add(id) on a Set, which keeps insertion order
RECURSIVE AddAll(_, _)
AddAll(tracked, ids) ==
  IF ids = << >> THEN tracked
  ELSE AddAll(IF \E k \in 1..Len(tracked) : tracked[k] = Head(ids)
              THEN tracked ELSE Append(tracked, Head(ids)),
              Tail(ids))

\* the oldest entries are deleted while the set is over maxTrackedPosts
TrimTracked(tracked, maxTrackedPosts) ==
  IF Len(tracked) > maxTrackedPosts
  THEN SubSeq(tracked, Len(tracked) - maxTrackedPosts + 1, Len(tracked))
  ELSE tracked

\* newPosts: the current posts whose id is not tracked
IsNewPost(tracked, post) == \A k \in 1..Len(tracked) : tracked[k] # post.id

\* how often onPostsDetected got a record of this element in newPosts
Occurrences(newPosts, elementId) ==
  Cardinality({k \in 1..Len(newPosts) : newPosts[k].element = elementId})

\* scanForPosts
ScanForPosts(d) ==
  LET currentPosts == CurrentPosts(d)
      newPosts == SelectSeq(currentPosts,
                            LAMBDA post : IsNewPost(d.trackedPosts, post))
      added == AddAll(d.trackedPosts,
                      [k \in 1..Len(newPosts) |-> newPosts[k].id])
  IN IF newPosts = << >> THEN d
     ELSE [d EXCEPT
             !.trackedPosts = TrimTracked(added, d.maxTrackedPosts),
             !.trimmed = @ \/ Len(added) > d.maxTrackedPosts,
             !.delivered = [e \in DetectorElementIds |->
                              @[e] + Occurrences(newPosts, e)]]

\* no detector constructed yet
NoDetector ==
  [pc |-> "none", platform |-> "facebook", engine |-> "standard",
   maxTrackedPosts |-> DefaultMaxTrackedPosts, observer |-> FALSE,
   debounceTimer |-> FALSE, doc |-> << >>, now |-> 0,
   trackedPosts |-> << >>, trimmed |-> FALSE,
   delivered |-> [e \in DetectorElementIds |-> 0]]

\* options.maxTrackedPosts || 1000
MaxTrackedPostsOptions == {1, DefaultMaxTrackedPosts}

\* new PostDetector(parser, options), on some document
DetectorNew ==
  /\ pd.pc = "none"
  /\ \E platform \in Platforms, engine \in Engines,
        maxTrackedPosts \in MaxTrackedPostsOptions, doc \in DetectorDocuments :
       pd' = [NoDetector EXCEPT !.pc = "ready", !.platform = platform,
                                !.engine = engine,
                                !.maxTrackedPosts = maxTrackedPosts,
                                !.doc = doc]
  /\ UNCHANGED <<pipelineVars, outsideDetector>>

\* scans stop once some element was delivered MaxDeliveries times
MayScan == \A e \in DetectorElementIds : pd.delivered[e] < MaxDeliveries

\* start(): the initial scan, then the observer is attached
DetectorStart ==
  /\ pd.pc = "ready"
  /\ ~pd.observer
  /\ MayScan
  /\ pd' = [ScanForPosts(pd) EXCEPT !.observer = TRUE]
  /\ UNCHANGED <<pipelineVars, outsideDetector>>

\* stop()
DetectorStop ==
  /\ pd.pc = "ready"
  /\ pd.observer \/ pd.debounceTimer
  /\ pd' = [pd EXCEPT !.observer = FALSE, !.debounceTimer = FALSE]
  /\ UNCHANGED <<pipelineVars, outsideDetector>>

\* clear(); the deliveries are counted from here again
DetectorClear ==
  /\ pd.pc = "ready"
  /\ pd.trackedPosts # << >>
  /\ pd' = [pd EXCEPT !.trackedPosts = << >>, !.trimmed = FALSE,
                      !.delivered = [e \in DetectorElementIds |-> 0]]
  /\ UNCHANGED <<pipelineVars, outsideDetector>>

\* the page adds a post element, before or after those it has; an attached
\* observer runs handleMutations, which (re)arms the debounce timer
PageAddsPost ==
  /\ pd.pc = "ready"
  /\ \E element \in DetectorElements, front \in BOOLEAN :
       /\ \A k \in 1..Len(pd.doc) : pd.doc[k] # element
       /\ pd' = [pd EXCEPT
                   !.doc = IF front THEN <<element>> \o @
                           ELSE Append(@, element),
                   !.debounceTimer = @ \/ pd.observer]
  /\ UNCHANGED <<pipelineVars, outsideDetector>>

\* the debounce timer fires: scanForPosts
DebounceFires ==
  /\ pd.pc = "ready"
  /\ pd.debounceTimer
  /\ MayScan
  /\ pd' = [ScanForPosts(pd) EXCEPT !.debounceTimer = FALSE]
  /\ UNCHANGED <<pipelineVars, outsideDetector>>

\* forceScan()
ForceScan ==
  /\ pd.pc = "ready"
  /\ MayScan
  /\ pd' = ScanForPosts(pd)
  /\ UNCHANGED <<pipelineVars, outsideDetector>>

\* a millisecond passes
DetectorTick ==
  /\ pd.pc = "ready"
  /\ pd.now < MaxNow
  /\ pd' = [pd EXCEPT !.now = @ + 1]
  /\ UNCHANGED <<pipelineVars, outsideDetector>>

(***************************************************************************)
(* Content script (content/index.ts).  A URL is its host, as the sequence  *)
(* of its labels, and its path.  state.observer is the number of the       *)
(* MutationObserver it holds (0 for null); `attached` is the set of        *)
(* observers that are observing the document.                              *)
(***************************************************************************)
Url(host, path) == [host |-> host, path |-> path]

Hosts ==
  {<<"www", "facebook", "com">>, <<"facebook", "com">>,
   <<"www", "instagram", "com">>, <<"www", "linkedin", "com">>,
   <<"notfacebook", "com">>, <<"example", "org">>}

PageUrls == {Url(host, path) : host \in Hosts, path \in {"/", "/feed"}}

\* hostname === domain || hostname.endsWith('.' + domain)
OnDomain(host, name) ==
  /\ Len(host) >= 2
  /\ host[Len(host) - 1] = name
  /\ host[Len(host)] = "com"

\* null
NoPlatform == "none"

\* detectPlatform
DetectPlatform(url) ==
  IF OnDomain(url.host, "facebook") THEN "facebook"
  ELSE IF OnDomain(url.host, "instagram") THEN "instagram"
  ELSE IF OnDomain(url.host, "linkedin") THEN "linkedin"
  ELSE NoPlatform

\* cleanup
Cleanup_Forget(s) ==
  [s EXCEPT !.observer = 0, !.ready = FALSE, !.postsDetected = 0]

Cleanup(s) ==
  [s EXCEPT !.attached = @ \ {s.observer}, !.observer = 0,
            !.ready = FALSE, !.postsDetected = 0]

\* observePosts
ObservePosts(s) ==
  [s EXCEPT !.created = @ + 1, !.observer = s.created + 1,
            !.attached = (@ \ {s.observer}) \cup {s.created + 1}]

\* initializeArchiver
InitializeArchiver(s) == [ObservePosts(Cleanup(s)) EXCEPT !.ready = TRUE]

\* init
ContentInit(s) ==
  LET detected == [s EXCEPT !.platform = DetectPlatform(s.currentUrl)] IN
  IF detected.platform # NoPlatform THEN InitializeArchiver(detected)
  ELSE detected

\* handleURLChange
HandleURLChange(s, newUrl) ==
  IF newUrl = s.currentUrl THEN s
  ELSE LET moved == [s EXCEPT !.currentUrl = newUrl]
           newPlatform == DetectPlatform(newUrl)
       IN IF newPlatform = moved.platform THEN moved
          ELSE IF newPlatform # NoPlatform
          THEN InitializeArchiver([moved EXCEPT !.platform = newPlatform])
          ELSE Cleanup([moved EXCEPT !.platform = newPlatform])

\* what the popup is told about: platform, ready, and the observer held
Observed(s) == <<s.platform, s.ready, s.observer, s.attached>>

\* no content script loaded yet
NoContentScript ==
  [pc |-> "none", platform |-> NoPlatform, currentUrl |-> Url(<< >>, ""),
   postsDetected |-> 0, ready |-> FALSE, observer |-> 0, attached |-> {},
   created |-> 0, samePlatform |-> FALSE,
   before |-> <<NoPlatform, FALSE, 0, {}>>]

\* the script is loaded into a page: the state is built and init() runs
ContentScriptLoad ==
  /\ cs.pc = "none"
  /\ \E url \in PageUrls :
       cs' = ContentInit([NoContentScript EXCEPT !.pc = "running",
                                                 !.currentUrl = url])
  /\ UNCHANGED <<pipelineVars, outsideContentScript>>

\* pushState, replaceState or popstate: the page is at `url` and
\* handleURLChange runs
UrlChange ==
  /\ cs.pc = "running"
  /\ cs.created < MaxObservers
  /\ \E url \in PageUrls :
       cs' = [HandleURLChange(cs, url) EXCEPT
                !.samePlatform = url # cs.currentUrl
                                   /\ DetectPlatform(url) = cs.platform,
                !.before = Observed(cs)]
  /\ UNCHANGED <<pipelineVars, outsideContentScript>>

\* nothing outside the pipeline has been called
OutsidePipelineIdle ==
  /\ dl = IdleDownload
  /\ bt = IdleDownloadBatch
  /\ pg = IdleParser
  /\ cv = IdleConvert
  /\ en = IdleEngagement
  /\ sn = IdleSanitize
  /\ ti = IdleTitle
  /\ pd = NoDetector
  /\ cs = NoContentScript

PipelineIdle ==
  /\ dirs = {<< >>}
  /\ files = [key \in {} |-> EmptyContent]
  /\ perm = "granted"
  /\ currentHandle = TRUE
  /\ clock = 0
  /\ faults = 0
  /\ sv = IdleSaver
  /\ ar = IdleArchive
  /\ batch = IdleBatch
  /\ hist = HistOf({<< >>}, [key \in {} |-> EmptyContent])

\* the downloader on its own, before any call
InitDownloader == PipelineIdle /\ OutsidePipelineIdle

\* one downloadMedia call

NextFetch == DownloadCall \/ DownloadStep \/ Tick

SpecFetch == InitDownloader /\ [][NextFetch]_vars

\* one downloadBatch call
NextDownloadBatch == BatchCall \/ BatchStep

SpecDownloadBatch == InitDownloader /\ [][NextDownloadBatch]_vars

\* one getAllPosts call of one platform parser
NextParse == ParseCall

SpecParse == InitDownloader /\ [][NextParse]_vars

\* one convert call
NextConvert == ConvertCall

SpecConvert == InitDownloader /\ [][NextConvert]_vars

\* one parseEngagementNumber call
NextEngagement == EngagementCall

SpecEngagement == InitDownloader /\ [][NextEngagement]_vars

\* one call of a filename sanitizer
NextSanitize == SanitizeFilenameCall \/ SanitizeCall

SpecSanitize == InitDownloader /\ [][NextSanitize]_vars

\* one generateTitle call
NextTitle == TitleCall

SpecTitle == InitDownloader /\ [][NextTitle]_vars

\* a PostDetector on a page
NextDetector ==
  \/ DetectorNew
  \/ DetectorStart
  \/ DetectorStop
  \/ DetectorClear
  \/ PageAddsPost
  \/ DebounceFires
  \/ ForceScan
  \/ DetectorTick

SpecDetector == InitDownloader /\ [][NextDetector]_vars

\* a content script and the navigation of its page
NextContentScript == ContentScriptLoad \/ UrlChange

SpecContentScript == InitDownloader /\ [][NextContentScript]_vars

\* one downloadMedia call whose own steps are taken when they can be: the
\* loop goes on, timers fire when due and time passes; nothing obliges the
\* network or the background context to answer
SpecFetchFair ==
  /\ SpecFetch
  /\ WF_vars(DlLoop)
  /\ WF_vars(DlDelayed)
  /\ WF_vars(DlAbort)
  /\ WF_vars(Tick)

(***************************************************************************)
(* Specification of the archive pipeline                                   *)
(***************************************************************************)
NoFiles == [key \in {} |-> EmptyContent]

Init ==
  /\ dirs = {<< >>}
  /\ files = NoFiles
  /\ perm \in PermissionStates
  /\ currentHandle \in BOOLEAN
  /\ clock = 0
  /\ faults = 0
  /\ sv = IdleSaver
  /\ ar = IdleArchive
  /\ batch = IdleBatch
  /\ hist = HistOf({<< >>}, NoFiles)
  /\ OutsidePipelineIdle

Next == StartBatch \/ BatchNext \/ ArchiveStep \/ SaverStep \/ Revoke

Spec == Init /\ [][Next]_vars

(***************************************************************************)
(* FileSaver on its own: a caller saves the same filename again and again  *)
(* into one folder, under any collision policy.  The folder starts with    *)
(* some of the names post.md, post (1).md, post (2).md, ... taken.         *)
(***************************************************************************)
SaveDir == <<ROOT_FOLDER, "Facebook", "2025", "10">>

SaveName == [stem |-> "post", idx |-> -1, t |-> -1, n |-> 0, ext |-> ".md"]

SaveContent(k) ==
  [EmptyContent EXCEPT !.kind = "doc", !.post = "save" \o ToString(k)]

\* the rename counters whose names are taken at the start
InitiallyTaken ==
  {{}, {0}, {1}, {0, 1}, {0, 2},
   0..(RenameLimit - 2), 0..(RenameLimit - 1), 0..RenameLimit}

FolderWith(taken) ==
  [key \in {FileKey(SaveDir, Renamed(SaveName, n)) : n \in taken}
     |-> OldContent]

InitSave ==
  /\ dirs = {SubSeq(SaveDir, 1, n) : n \in 0..Len(SaveDir)}
  /\ \E taken \in InitiallyTaken : files = FolderWith(taken)
  /\ perm = "granted"
  /\ currentHandle = TRUE
  /\ clock = 0
  /\ faults = 0
  /\ sv = IdleSaver
  /\ ar = IdleArchive
  /\ batch = [IdleBatch EXCEPT !.pc = "saves"]
  /\ hist = HistOf({}, NoFiles)
  /\ OutsidePipelineIdle

\* fileSaver.saveFile(...) or fileSaver.saveFileWithAutoRename(...)
SaveCall ==
  /\ batch.pc = "saves"
  /\ sv.pc = "idle"
  /\ batch.k < MaxSaves
  /\ \E opts \in {o \in ArchiveOptionsSet : ~o.downloadMedia} :
       /\ sv' = SaverCall("caller", SaveDir, SaveName, SaveContent(batch.k + 1),
                          opts.overwrite, opts.autoRename)
       /\ batch' = [batch EXCEPT !.k = @ + 1, !.opts = opts]
  /\ hist' = FreshHist
  /\ UNCHANGED outsidePipeline
  /\ UNCHANGED <<dirs, files, perm, currentHandle, clock, faults, ar>>

\* the call has settled; the caller keeps its result
SaveReturn ==
  /\ batch.pc = "saves"
  /\ sv.pc = "done"
  /\ batch' = [batch EXCEPT !.log = Append(@, sv.result)]
  /\ sv' = IdleSaver
  /\ clock' = clock + 1
  /\ UNCHANGED outsidePipeline
  /\ UNCHANGED <<dirs, files, perm, currentHandle, faults, ar, hist>>

NextSave == SaveCall \/ SaveReturn \/ SaverStep \/ Revoke

SpecSave == InitSave /\ [][NextSave]_vars

(***************************************************************************)
(* FolderManager on its own: a caller asks for the folder of a platform    *)
(* and date, more than once, in a tree where some leading segments of a    *)
(* folder path exist already.                                              *)
(***************************************************************************)
\* the first n segments of a path, as the set of directories they name
Leading(path, n) == {SubSeq(path, 1, m) : m \in 0..n}

InitFolder ==
  /\ \E post \in Posts :
       \E n \in 0..Len(PathSegments(post)) :
         dirs = Leading(PathSegments(post), n)
  /\ files = NoFiles
  /\ perm = "granted"
  /\ currentHandle = TRUE
  /\ clock = 0
  /\ faults = 0
  /\ sv = IdleSaver
  /\ ar = IdleArchive
  /\ batch = [IdleBatch EXCEPT !.pc = "folders"]
  /\ hist = HistOf({}, NoFiles)
  /\ OutsidePipelineIdle

\* FolderResult, the handle being the directory that path names
FolderResult(success, path) == [success |-> success, path |-> path]

\* folderManager.ensureFolderStructure(vaultHandle, { platform, date })
FolderCall ==
  /\ batch.pc = "folders"
  /\ ar.pc = "idle"
  /\ batch.k < MaxFolderCalls
  /\ \E post \in Posts :
       ar' = [ArchiveCall(post, IdleArchive.opts) EXCEPT !.pc = "folders"]
  /\ batch' = [batch EXCEPT !.k = @ + 1]
  /\ hist' = FreshHist
  /\ UNCHANGED outsidePipeline
  /\ UNCHANGED <<dirs, files, perm, currentHandle, clock, faults, sv>>

\* the call has settled; the caller keeps its result
FolderReturn ==
  /\ batch.pc = "folders"
  /\ ar.pc \notin {"idle", "folders"}
  /\ batch' = [batch EXCEPT !.log =
                 Append(@, [post |-> ar.post.id,
                            result |-> FolderResult(hist.folder = "ok",
                                                    ar.folder)])]
  /\ ar' = IdleArchive
  /\ clock' = clock + 1
  /\ UNCHANGED outsidePipeline
  /\ UNCHANGED <<dirs, files, perm, currentHandle, faults, sv, hist>>

NextFolder == FolderCall \/ ArFolder \/ FolderReturn \/ Revoke

SpecFolder == InitFolder /\ [][NextFolder]_vars

(***************************************************************************)
(* Properties of the archive pipeline                                      *)
(***************************************************************************)
\* archivePost has returned and its result has not yet been collected
Returned == ar.pc = "done"

ReturnedSuccess == Returned /\ ar.result.success

\* the folder the specification derives for a record
ClaimedFolder(post) ==
  <<"Social Archive",
    CASE post.platform = "facebook" -> "Facebook"
      [] post.platform = "instagram" -> "Instagram"
      [] post.platform = "linkedin" -> "LinkedIn",
    ToString(post.year),
    IF post.month < 10 THEN "0" \o ToString(post.month) ELSE ToString(post.month)>>

\* where the document of the returned call was written
WrittenKey == FileKey(ar.folder, ar.result.filename)

\* an embed reference names an attachment that was downloaded and stored
\* by this call: its index is one whose download succeeded, its close()
\* succeeded, and the stored file holds the complete payload
EmbedPersisted(e) ==
  /\ e.name.idx + 1 \in hist.fetched
  /\ e.name \in hist.stored
  /\ \E d \in dirs :
       /\ FileKey(d, e.name) \in DOMAIN files
       /\ files[FileKey(d, e.name)] =
            BlobContent(ar.post.media[e.name.idx + 1].url)

\* C1: while archivePost writes the document, and in the document it has
\* written, every embed reference names an attachment whose download and
\* store both succeeded in the same call; a failed item is never referenced.
C1_EmbedsNamePersistedMedia ==
  /\ (ar.pc = "saving" /\ sv.caller = "archive") =>
       \A k \in 1..Len(sv.content.refs) : EmbedPersisted(sv.content.refs[k])
  /\ ReturnedSuccess =>
       \A k \in 1..Len(files[WrittenKey].refs) :
         /\ EmbedPersisted(files[WrittenKey].refs[k])
         /\ files[WrittenKey].refs[k].name.idx + 1
              \notin hist.fetchFailed \cup hist.storeFailed

\* C1 witness: a document is being written that references one attachment
\* while another media item of the record failed to store
C1_Witness ==
  /\ ar.pc = "saving"
  /\ sv.pc = "close"
  /\ Len(sv.content.refs) = 1
  /\ hist.storeFailed # {}

\* C2: every attachment stored by a successful archivePost lies in the
\* attachments subfolder of the folder that received the document, so every
\* embed path of the document resolves, from the document's folder, to an
\* existing file.
C2_AttachmentsBesideDocument ==
  ReturnedSuccess =>
    /\ \A name \in hist.stored :
         FileKey(Append(ClaimedFolder(ar.post), "attachments"), name)
           \in DOMAIN files
    /\ \A k \in 1..Len(files[WrittenKey].refs) :
         LET e == files[WrittenKey].refs[k] IN
         FileKey(ar.folder \o e.dir, e.name) \in DOMAIN files

\* C3: when archivePost returns success with {path, filename}, a file named
\* filename exists in Social Archive/{Platform}/{YYYY}/{MM}, holds the
\* rendered document, and path is that folder joined with filename.
C3_SuccessNamesWrittenDocument ==
  ReturnedSuccess =>
    LET folder == ClaimedFolder(ar.post)
        key == FileKey(folder, ar.result.filename)
    IN /\ folder \in dirs
       /\ key \in DOMAIN files
       /\ files[key] = ar.markdown
       /\ files[key].kind = "doc"
       /\ files[key].post = ar.post.id
       /\ ar.result.path = [dir |-> folder, name |-> ar.result.filename]
       /\ ar.result.filename.stem = GenerateFilename(ar.post).stem
       /\ ar.result.filename.ext = ".md"

\* C3 witness: a success whose filename is a renamed one
C3_Witness ==
  /\ ReturnedSuccess
  /\ ar.opts.autoRename
  /\ ar.result.filename.n = 1

\* C4: a media failure never makes archivePost fail: a call that returns a
\* failure had no root handle, was refused access, or failed to create the
\* folders, to render, or to write the document.
C4_MediaFailureNeverAborts ==
  (Returned /\ ~ar.result.success) =>
    \/ hist.access \in {"nohandle", "refused"}
    \/ hist.folder = "failed"
    \/ hist.render = "failed"
    \/ hist.save = "failed"

\* C4 witness: success although one item failed to download and another
\* failed to store
C4_Witness ==
  /\ ReturnedSuccess
  /\ hist.fetchFailed # {}
  /\ hist.storeFailed # {}

\* C5: archivePosts returns one result per input record, in input order,
\* result i being what archivePost returned for record i; failures do not
\* stop the loop.
C5_OneResultPerRecord ==
  batch.pc = "returned" =>
    /\ Len(batch.results) = Len(batch.posts)
    /\ Len(batch.log) = Len(batch.posts)
    /\ \A i \in 1..Len(batch.posts) :
         /\ batch.log[i].post = batch.posts[i].id
         /\ batch.results[i] = batch.log[i].result
         /\ batch.results[i].success =>
              batch.results[i].filename.stem
                = GenerateFilename(batch.posts[i]).stem

\* C5 witness: a batch whose first record failed and whose second succeeded
C5_Witness ==
  /\ batch.pc = "returned"
  /\ Len(batch.posts) = 2
  /\ ~batch.results[1].success
  /\ batch.results[2].success

\* C6: without a root handle, or when access is not granted and the
\* re-request is refused, archivePost returns a failure, attempts no write,
\* starts no download and leaves storage as it was.
C6_NoAccessNoEffect ==
  (Returned /\ hist.access \in {"nohandle", "refused"}) =>
    /\ ~ar.result.success
    /\ hist.attempts = 0
    /\ hist.fetches = 0
    /\ dirs = hist.preDirs
    /\ files = hist.preFiles

\* C6 witness: access refused for a record whose predecessor was archived
C6_Witness ==
  /\ Returned
  /\ hist.access = "refused"
  /\ \E key \in DOMAIN files : files[key].kind = "doc"

\* C7: every write of archivePost on the root is preceded by a permission
\* check of its own, and no write is attempted while the grant is missing.
C7_EveryWriteChecked == ~hist.uncheckedWrite /\ ~hist.deniedWrite

\* C8: once a file write has failed or was interrupted before close(), the
\* directory holds the complete content under the name or no entry for it,
\* never an empty or partial file.
C8_NoEmptyFileAfterFailedWrite ==
  Returned => \A key \in DOMAIN files : files[key].kind # "empty"

AutoRenameSettled ==
  /\ batch.pc = "saves"
  /\ sv.pc = "done"
  /\ batch.opts.autoRename
  /\ sv.result.error \notin {"error", "denied"}

\* the name with counter n was taken when the call began
Taken(n) == FileKey(SaveDir, Renamed(SaveName, n)) \in DOMAIN hist.preFiles

\* 0 when the plain name was unused, else the smallest unused n >= 1
SmallestUnused ==
  IF ~Taken(0) THEN 0
  ELSE CHOOSE n \in 1..(Cardinality(DOMAIN hist.preFiles) + 1) :
         ~Taken(n) /\ \A m \in 1..(n - 1) : Taken(m)

ExistingFilesKept ==
  \A key \in DOMAIN hist.preFiles :
    key \in DOMAIN files /\ files[key] = hist.preFiles[key]

SavedAs(n) ==
  /\ sv.result.success
  /\ sv.result.path = Renamed(SaveName, n)
  /\ files[FileKey(SaveDir, Renamed(SaveName, n))] = sv.content

C11_GivesUpAfter1000Candidates ==
  (AutoRenameSettled /\ Taken(0)) =>
    IF \E n \in 1..1000 : ~Taken(n)
    THEN SavedAs(SmallestUnused)
    ELSE ~sv.result.success

\* C11 case: the plain name and " (1)" .. " (999)" are taken, " (1000)" is
\* not, and the call has settled
C11_Witness ==
  /\ AutoRenameSettled
  /\ \A n \in 0..999 : Taken(n)
  /\ ~Taken(1000)
  /\ ~sv.result.success

(***************************************************************************)
(* Properties of MediaDownloader                                           *)
(***************************************************************************)
DownloadReturned == dl.pc = "done"

\* C12: the direct fetch attempts of downloadMedia come one after another,
\* at most retryAttempts of them; the first starts at once, attempt k + 1
\* starts 1000 * 2^(k-1) ms after attempt k was over; no attempt follows a
\* successful one; a failure is returned only after retryAttempts failed
\* attempts.
C12_AttemptsSequentialWithBackoff ==
  LET n == Len(dl.log) IN
  /\ n <= dl.retryAttempts
  /\ n >= 1 => dl.log[1].start = dl.called
  /\ \A k \in 1..(n - 1) :
       /\ dl.log[k].outcome = "failure"
       /\ dl.log[k].end # -1
       /\ dl.log[k + 1].start - dl.log[k].end = 1000 * 2 ^ (k - 1)
  /\ (DownloadReturned /\ ~dl.result.success) =>
       /\ n = dl.retryAttempts
       /\ \A k \in 1..n : dl.log[k].outcome = "failure"
  /\ (DownloadReturned /\ dl.result.success) =>
       /\ n >= 1
       /\ dl.log[n].outcome = "success"

\* C12 case: two failed attempts, then success on the third, after waits of
\* 1 s and 2 s
C12_Witness ==
  /\ DownloadReturned
  /\ dl.result.success
  /\ Len(dl.log) = 3
  /\ dl.log[2].start - dl.log[1].end = 1000
  /\ dl.log[3].start - dl.log[2].end = 2000

\* C13: within an attempt the background fallback is requested at most
\* once, only when the direct fetch of the attempt was classified
\* cors-blocked, and only after that fetch has settled; a timeout or an
\* HTTP status never triggers it; a successful fallback ends downloadMedia
\* with success and no further attempt.
C13_FallbackOnlyWhenCorsBlocked ==
  LET n == Len(dl.log) IN
  /\ \A k \in 1..n :
       /\ dl.log[k].fallbacks <= 1
       /\ dl.log[k].fallbacks = 1 =>
            /\ dl.log[k].kind = "cors"
            /\ dl.log[k].settled # -1
            /\ dl.log[k].fallbackAt >= dl.log[k].settled
       /\ dl.log[k].kind \in {"timeout", "http"} => dl.log[k].fallbacks = 0
       /\ dl.log[k].outcome = "success" =>
            k = n /\ DownloadReturned /\ dl.result.success
  /\ dl.pc = "background" => LastAttempt(dl).kind = "cors"

\* C13 case: a timed-out attempt without fallback, then a cors-blocked
\* attempt whose fallback succeeded
C13_Witness ==
  /\ DownloadReturned
  /\ dl.result.success
  /\ Len(dl.log) = 2
  /\ dl.log[1].kind = "timeout" /\ dl.log[1].fallbacks = 0
  /\ dl.log[2].kind = "cors" /\ dl.log[2].fallbacks = 1

\* C14: the timeout bounds each attempt as a whole: a direct fetch that has
\* not delivered its complete payload within timeout ms is aborted and is
\* a failed attempt of kind timeout, and when the last attempt timed out
\* the failure returned is not flagged corsBlocked.
C14_TimeoutBoundsWholeAttempt ==
  /\ dl.pc \in {"fetch", "body"} => dl.now <= dl.started + dl.timeout
  /\ \A k \in 1..Len(dl.log) :
       dl.log[k].settled # -1 =>
         /\ dl.log[k].settled - dl.log[k].start <= dl.timeout
         /\ dl.log[k].kind = "timeout" =>
              dl.log[k].outcome = "failure" /\ dl.log[k].fallbacks = 0
  /\ (DownloadReturned /\ Len(dl.log) >= 1
        /\ LastAttempt(dl).kind = "timeout") =>
       /\ ~dl.result.success
       /\ ~dl.result.corsBlocked
       /\ dl.result.error = "Download timeout"

\* C14 case: the response head arrived in time, the timer was cleared, and
\* the body is still being read after the timeout has passed
C14_Witness ==
  /\ dl.pc = "body"
  /\ dl.deadline = -1
  /\ dl.now > dl.started + dl.timeout

\* C15: during downloadBatch at most concurrency downloads are in flight,
\* and a download is in flight only when every download of the earlier
\* waves has settled.
C15_WavesBoundedAndSequential ==
  /\ Cardinality(bt.inflight) <= bt.concurrency
  /\ \A k \in bt.inflight :
       \A j \in 1..Len(bt.urls) :
         (j - 1) \div bt.concurrency < (k - 1) \div bt.concurrency =>
           j \in bt.settled

\* C15 case: a later wave is in flight, as many downloads as allowed
C15_Witness ==
  /\ bt.pc = "wave"
  /\ bt.i > 0
  /\ Cardinality(bt.inflight) = bt.concurrency
  /\ bt.settled = 1..bt.i

\* C16: when downloadBatch returns, successCount + failureCount is the
\* number of input URLs, the mapping has a result for every input URL, and
\* successCount and failureCount are the numbers of successful and failed
\* entries of the mapping, also when a URL occurs more than once.
C16_CountsDescribeMapping ==
  bt.pc = "returned" =>
    /\ bt.out.successCount + bt.out.failureCount = Len(bt.urls)
    /\ \A k \in 1..Len(bt.urls) : bt.urls[k] \in DOMAIN bt.out.results
    /\ bt.out.successCount =
         Cardinality({u \in DOMAIN bt.out.results : bt.out.results[u].success})
    /\ bt.out.failureCount =
         Cardinality({u \in DOMAIN bt.out.results : ~bt.out.results[u].success})

\* C16 case: a list with a repeated URL whose two downloads ended
\* differently
C16_Witness ==
  /\ bt.pc = "returned"
  /\ Len(bt.urls) = 2
  /\ bt.urls[1] = bt.urls[2]
  /\ bt.out.successCount = 1
  /\ bt.out.failureCount = 1

(***************************************************************************)
(* Properties of FolderManager                                             *)
(***************************************************************************)
\* ensureFolderStructure has returned success for a record with a date
FolderReturnedOk ==
  /\ batch.pc = "folders"
  /\ ar.pc \notin {"idle", "folders"}
  /\ hist.folder = "ok"
  /\ ar.post.dateValid

ParseReturned == pg.pc = "returned"

\* a candidate post with an author: an element the parser recognises as a
\* post whose author name resolves to a non-empty string
WellFormedCandidate(platform, element) ==
  /\ IF platform = "instagram"
     THEN element.tag = "article" /\ element.frame
     ELSE element.sel \cap (1..PostContainerCount(platform)) # {}
  /\ \/ element.name # ""
     \/ platform = "instagram" /\ AuthorUsername(element.href) # ""

ReturnedIds == {pg.posts[k].id : k \in 1..Len(pg.posts)}

\* C18: for a document with N well-formed candidate posts, getAllPosts
\* returns exactly N records, one per candidate element and none twice,
\* also when a candidate matches several post-container selectors.
C18_OneRecordPerCandidate ==
  ParseReturned =>
    LET candidates == {pg.doc[k].id : k \in
                         {j \in 1..Len(pg.doc) :
                            WellFormedCandidate(pg.platform, pg.doc[j])}}
    IN /\ Len(pg.posts) = Cardinality(candidates)
       /\ ReturnedIds = candidates
       /\ \A i, j \in 1..Len(pg.posts) :
            i # j => pg.posts[i].id # pg.posts[j].id

\* C18 case: an element that matches two post-container selectors is
\* returned twice
C18_Witness ==
  /\ ParseReturned
  /\ pg.platform = "facebook"
  /\ \E k \in 1..Len(pg.doc) :
       /\ Cardinality(pg.doc[k].sel) = 2
       /\ WellFormedCandidate(pg.platform, pg.doc[k])
       /\ \E i, j \in 1..Len(pg.posts) :
            i # j /\ pg.posts[i].id = pg.doc[k].id
                  /\ pg.posts[j].id = pg.doc[k].id

\* C19: a candidate whose author name resolves to empty, or whose
\* extraction throws, is dropped from the result of getAllPosts while
\* every other candidate is still returned; every returned record has a
\* non-empty author name.
C19_BadCandidateDroppedAlone ==
  ParseReturned =>
    /\ \A k \in 1..Len(pg.posts) : pg.posts[k].name # ""
    /\ \A k \in 1..Len(pg.doc) :
         LET element == pg.doc[k] IN
         IsPostElement(pg.platform, element) =>
           IF \/ ~WellFormedCandidate(pg.platform, element)
              \/ ParseThrows(pg.platform, pg.engine, element)
           THEN element.id \notin ReturnedIds
           ELSE element.id \in ReturnedIds

\* C19 case: a document with a candidate without an author next to a
\* candidate that is returned
C19_Witness ==
  /\ ParseReturned
  /\ \E i, j \in 1..Len(pg.doc) :
       /\ IsPostElement(pg.platform, pg.doc[i])
       /\ ~WellFormedCandidate(pg.platform, pg.doc[i])
       /\ pg.doc[i].id \notin ReturnedIds
       /\ pg.doc[j].id \in ReturnedIds

(***************************************************************************)
(* Properties of MarkdownConverter.convert                                 *)
(***************************************************************************)
ConvertReturned == cv.pc = "returned" /\ cv.success

\* the document has one embed per reference passed, in the same order
OneEmbedPerReference ==
  /\ Len(cv.markdown.refs) = Len(cv.mediaReferences)
  /\ \A k \in 1..Len(cv.mediaReferences) :
       /\ cv.markdown.refs[k].dir = <<ATTACHMENTS_FOLDER>>
       /\ cv.markdown.refs[k].name = cv.mediaReferences[k].filename

\* C20 as stated: the document rendered by convert contains exactly one
\* embed reference per persisted asset passed to it, in the same order, and
\* no "Media" section when that list is empty.
C20_OneEmbedPerAsset ==
  ConvertReturned =>
    /\ OneEmbedPerReference
    /\ cv.mediaReferences = << >> => ~cv.markdown.mediaSection

\* C20, for the calls it holds for: when includeMediaLinks is set (the
\* default) the document contains exactly one embed reference per asset
\* passed, in the same order; it has no "Media" section and no embed when
\* the list is empty or includeMediaLinks is off.
C20_OneEmbedPerAssetWhenIncluded ==
  ConvertReturned =>
    /\ cv.includeMediaLinks => OneEmbedPerReference
    /\ (cv.mediaReferences = << >> \/ ~cv.includeMediaLinks) =>
         /\ ~cv.markdown.mediaSection
         /\ cv.markdown.refs = << >>

\* C20 case: a record with 2 media items of which 1 was stored renders
\* exactly 1 embed reference
C20_Witness ==
  /\ ConvertReturned
  /\ cv.includeMediaLinks
  /\ Len(cv.post.media) = 2
  /\ Len(cv.mediaReferences) = 1
  /\ Len(cv.markdown.refs) = 1
  /\ cv.markdown.mediaSection

(***************************************************************************)
(* Properties of BaseParser.parseEngagementNumber                          *)
(***************************************************************************)
EngagementReturned == en.pc = "returned"

\* digits with at most one decimal point: "12", "1.2", ".5"
IsDecimal(s) ==
  /\ \A k \in 1..Len(s) : s[k] \in Digits \cup {"."}
  /\ \E k \in 1..Len(s) : s[k] \in Digits
  /\ \A i, j \in 1..Len(s) : (s[i] = "." /\ s[j] = ".") => i = j

\* the text without its last character
Mantissa(s) == SubSeq(s, 1, Len(s) - 1)

\* the integer the digits of a text denote once everything else is stripped
StrippedInteger(s) == DigitsValue(SelectSeq(s, LAMBDA c : c \in Digits))

\* C21: parseEngagementNumber multiplies by 1,000 only when the text has a
\* trailing k/K and by 1,000,000 only when it has a trailing m/M, honouring
\* a decimal mantissa; for every other text it strips the non-digit
\* characters and returns the remaining digits as an integer.
C21_SuffixMultipliesElseDigits ==
  EngagementReturned =>
    LET cleaned == ToLowerCase(Trim(en.text))
        last == IF cleaned = << >> THEN "" ELSE cleaned[Len(cleaned)]
    IN /\ (last = "k" /\ IsDecimal(Mantissa(cleaned))) =>
            en.result = MathRoundTimes(ParseFloat(Mantissa(cleaned)), 1000)
       /\ (last = "m" /\ IsDecimal(Mantissa(cleaned))) =>
            en.result = MathRoundTimes(ParseFloat(Mantissa(cleaned)), 1000000)
       /\ last \notin {"k", "m"} =>
            en.result = Number(StrippedInteger(en.text), 1)

\* C21 case: a k that is not at the end of the text still multiplies
C21_Witness ==
  /\ EngagementReturned
  /\ en.text = <<"1", "K", "2">>
  /\ en.result = Number(12000, 1)

\* C22: parseEngagementNumber returns a non-negative integer for every
\* input string, 0 for empty text and for every text that contains no
\* parsable number; it never returns NaN.
C22_NonNegativeIntegerNeverNaN ==
  EngagementReturned =>
    /\ ~en.result.nan
    /\ en.result.den = 1
    /\ en.result.num >= 0
    /\ (\A k \in 1..Len(en.text) : en.text[k] \notin Digits) =>
         en.result.num = 0

\* C22 case: a text with a k and no number yields NaN
C22_Witness ==
  /\ EngagementReturned
  /\ en.text = <<"K">>
  /\ en.result.nan

(***************************************************************************)
(* Properties of the filename sanitizers                                   *)
(***************************************************************************)
SanitizeReturned == sn.pc = "returned"

\* C23: for every input string, the output of the filename sanitizer
\* (MarkdownConverter.sanitizeFilename, likewise FileNameGenerator.sanitize)
\* contains none of the characters < > : " / \ | ? * and no control
\* character, and does not start or end with white space or a dot.
C23_SanitizedNameIsSafe ==
  SanitizeReturned =>
    /\ \A k \in 1..Len(sn.out) :
         sn.out[k] \notin {"<", ">", ":", "\"", "/", "\\", "|", "?", "*",
                           "\t", "\n"}
    /\ sn.out # << >> =>
         /\ sn.out[1] \notin {" ", "\t", "\n", "."}
         /\ sn.out[Len(sn.out)] \notin {" ", "\t", "\n", "."}

\* C23 case: a name with a leading dot keeps it
C23_Witness ==
  /\ SanitizeReturned
  /\ sn.by = "MarkdownConverter"
  /\ sn.str = <<":", ".", "a", " ">>
  /\ sn.out = <<".", "a", "-">>

TitleReturned == ti.pc = "returned"

\* the text before the first line break of the trimmed content
FirstLineOf(content) ==
  LET t == Trim(content)
      breaks == {k \in 1..Len(t) : t[k] = "\n"}
  IN IF breaks = {} THEN t
     ELSE SubSeq(t, 1, (CHOOSE k \in breaks : \A j \in breaks : k <= j) - 1)

\* C25: the title is the first line of content.text (the text before the
\* first line break), cut to maxTitleLength characters with an ellipsis
\* marker appended only when it was cut; empty or white-space-only content
\* yields the placeholder title.
C25_TitleIsFirstLine ==
  TitleReturned =>
    IF Trim(ti.content) = << >>
    THEN ti.title = <<"U", "n", "t", "i", "t", "l", "e", "d", " ",
                      "P", "o", "s", "t">>
    ELSE LET line == ReplaceRuns(Trim(FirstLineOf(ti.content)),
                                 {" ", "\t"}, " ")
         IN IF Len(line) > ti.maxLength
            THEN ti.title = Trim(SubSeq(line, 1, ti.maxLength))
                              \o <<".", ".", ".">>
            ELSE ti.title = line

\* C25 case: a content whose first line fits is cut and marked, because
\* its second line is counted too
C25_Witness ==
  /\ TitleReturned
  /\ ti.content = <<"a", "\n", "b">>
  /\ ti.maxLength = 2
  /\ ti.title = <<"a", ".", ".", ".">>

(***************************************************************************)
(* Properties of PostDetector                                              *)
(***************************************************************************)
\* fewer than maxTrackedPosts posts are tracked and none was dropped
BelowMaxTracked ==
  /\ ~pd.trimmed
  /\ Len(pd.trackedPosts) < pd.maxTrackedPosts

\* C26: across any sequence of scans (the initial scan in start(),
\* debounced scans after mutations, forceScan()), a post element that stays
\* in the document is passed to onPostsDetected at most once between
\* start() and clear(), as long as fewer than maxTrackedPosts posts are
\* tracked, whether or not the element carries a data-id/id attribute.
C26_DeliveredAtMostOnce ==
  (pd.pc = "ready" /\ BelowMaxTracked) =>
    \A e \in DetectorElementIds : pd.delivered[e] <= 1

\* C26 case: an element without data-id, alone in an Instagram document,
\* delivered by two scans
C26_Witness ==
  /\ pd.pc = "ready"
  /\ BelowMaxTracked
  /\ pd.platform = "instagram"
  /\ Len(pd.doc) = 1
  /\ pd.doc[1].id = "e7"
  /\ pd.delivered["e7"] = 2
  /\ Len(pd.trackedPosts) = 2

(***************************************************************************)
(* Properties of the content script                                        *)
(***************************************************************************)
\* C27: after init() and after every URL change handled by the content
\* script, state.ready is true exactly when state.platform is a supported
\* platform, exactly then a DOM observer is attached, at most one observer
\* is attached at any time, and navigating between URLs of the same
\* platform leaves platform, ready and the observer unchanged.
C27_ReadyIffPlatformOneObserver ==
  cs.pc = "running" =>
    /\ cs.ready <=> cs.platform \in {"facebook", "instagram", "linkedin"}
    /\ cs.ready <=> cs.attached # {}
    /\ Cardinality(cs.attached) <= 1
    /\ cs.attached \subseteq {cs.observer}
    /\ cs.samePlatform =>
         <<cs.platform, cs.ready, cs.observer, cs.attached>> = cs.before

\* C27 case: the page went from one platform to another and then to
\* another URL of that platform
C27_Witness ==
  /\ cs.pc = "running"
  /\ cs.samePlatform
  /\ cs.ready
  /\ cs.created = 2
  /\ cs.attached = {2}
  /\ cs.currentUrl.path = "/feed"

(***************************************************************************)
(* The written document and its metadata header; failed archivePost calls  *)
(***************************************************************************)
\* C28: in every document written by archivePost, the metadata header agrees
\* with the body: media_count equals the number of embed references in the
\* Media section (no media_count, none), and has_video is true only if one
\* of the embedded assets is a video.
C28_HeaderAgreesWithBody ==
  \A key \in DOMAIN files :
    files[key].kind = "doc" =>
      /\ (IF files[key].hasMedia THEN files[key].media_count ELSE 0)
           = Len(files[key].refs)
      /\ files[key].has_video =>
           \E k \in 1..Len(files[key].refs) : files[key].refs[k].type = "video"

\* C28 case: a written document of a record with two media items whose
\* header counts both while its body embeds fewer
C28_Witness ==
  /\ ReturnedSuccess
  /\ files[WrittenKey].kind = "doc"
  /\ files[WrittenKey].media_count = 2
  /\ files[WrittenKey].has_video
  /\ Len(files[WrittenKey].refs) < 2

\* C29: archivePost is all-or-nothing with respect to files: if it returns
\* a failure, no attachment or document file created by that call remains
\* in storage.
C29_FailureLeavesNoFile ==
  (Returned /\ ~ar.result.success) =>
    DOMAIN files \subseteq DOMAIN hist.preFiles

\* C29 case: a call that stored an attachment and then failed to save the
\* document, which existed; the attachment is still there
C29_Witness ==
  /\ Returned
  /\ ~ar.result.success
  /\ hist.docExisted
  /\ hist.stored # {}
  /\ \A name \in hist.stored :
       \E d \in dirs : /\ FileKey(d, name) \in DOMAIN files
                       /\ FileKey(d, name) \notin DOMAIN hist.preFiles

(***************************************************************************)
(* Termination of downloadMedia                                            *)
(***************************************************************************)
\* C30: every call to downloadMedia eventually returns a success or failure
\* result whatever the network does: a request that never settles (the
\* direct fetch, the reading of its body, or the request relayed to the
\* background context) is cut off by the per-attempt timeout.
\* (it fails on the behaviours that wait in "body" or "background" with no
\* timer set, dl.deadline = -1: no step of the call is enabled there, and
\* the passing of time enables none)
C30_DownloadEventuallyReturns == (dl.pc = "loop") ~> (dl.pc = "done")

\* C30 case: the request relayed to the background context is still
\* pending after the timeout of the attempt has passed, with no timer set
C30_Witness ==
  /\ dl.pc = "background"
  /\ dl.deadline = -1
  /\ dl.now = MaxTime * RETRY_DELAY_BASE
  /\ dl.now > dl.started + dl.timeout

====
